---------------------------- MODULE Spec2Model ----------------------------
(***************************************************************************)
(* Credit-memo generator: the two-phase orchestration engine               *)
(* (run_rag_tasks_in_parallel) and the assembly of the final document, as  *)
(* written in src/app.py (HTTP endpoint) and src/resources/pipeline.py     *)
(* (command line).                                                         *)
(*                                                                         *)
(* The rag object is a collaborator reached through three calls (its       *)
(* constructor, rag.run, rag.generate_answer).  Each call either returns   *)
(* or raises; a returned answer is a str.  With src/resources/rag.py as it *)
(* stands, run() and generate_answer() require one positional argument     *)
(* more than the engine passes, so there every call raises TypeError: that *)
(* is the behaviour of this model in which every task raises.  Likewise    *)
(* main() of pipeline.py passes chroma_path to a constructor that does not *)
(* take it; the model follows main() as written for a rag that is built.   *)
(*                                                                         *)
(* A str is modelled as the sequence of its non-blank lines, a line as a   *)
(* string.  The text an LLM returns for a prompt is tagged with the prompt *)
(* so that the place an answer ends up in can be traced to its task.       *)
(*                                                                         *)
(* Further parts, each with its own specification over its own variables:  *)
(* RunSpec (RAGPipelineCosine.run: context of one group), RetrieveSpec     *)
(* (retrieve and the re-ranker), ChunkerSpec (extract_chunks_from_markdown *)
(* and the page manifest of split_md_by_page), SplitSpec                   *)
(* (split_text_by_tokens), StoreSpec (store_in_chromadb over several       *)
(* ingestions), IndexSpec (create_embeddings_and_index_async: batches of   *)
(* embedding requests, then the store), ExtractSpec (the retry loop of     *)
(* extract_pdf), ChatSpec (LocalLLMAdapter.chat under generate_answer),    *)
(* RequestSpec (the event stream of one request to generate_credit_memo),  *)
(* MutationSpec (the first loop of the engine, one list write at a time),  *)
(* HitlSpec (the review queue of HITLEvaluator), ReactSpec                 *)
(* (ReActAgent.run), McpSpec (CreditMemoMCPServer and handle_mcp_request)  *)
(* and AgentSpec (MultiAgentOrchestrator.generate_credit_memo).            *)
(* The chunker reads config.MAX_TOKENS, config.DEFAULT_ENCODING and        *)
(* config.BATCH_SIZE, which src/resources/config/config.py does not        *)
(* define; the token budget is any value from 1 to MaxBudget and the batch *)
(* size any value from 1 to MaxBatch.                                      *)
(***************************************************************************)
EXTENDS Integers, Sequences, FiniteSets, TLC

\* Largest number of independent tasks whose outcome is left open in one run.
MaxTasks == 2

---------------------------------------------------------------------------
\* Python values: None and str
None == [none |-> TRUE, lines |-> <<>>]

Str(ls) == [none |-> FALSE, lines |-> ls]

\* bool(v) for v a str or None, as used by filter(None, ...) and `if x`
Truthy(v) == (~v.none) /\ v.lines # <<>>

\* filter(None, answers)
RECURSIVE FilterNone(_)
FilterNone(answers) ==
    IF answers = <<>> THEN <<>>
    ELSE IF Truthy(Head(answers))
         THEN <<Head(answers)>> \o FilterNone(Tail(answers))
         ELSE FilterNone(Tail(answers))

---------------------------------------------------------------------------
\* The section taxonomy
SECTION_ORDER ==
    << "Executive Summary",
       "Background, Management, and Ownership",
       "Financial Analysis",
       "Collateral and Security",
       "Risk Assessment",
       "Loan Structure and Terms",
       "Recommendation and Conclusion" >>

\* keys of CREDIT_MEMO_SECTIONS in insertion order
SECTION_KEYS ==
    << "Background, Management, and Ownership",
       "Financial Analysis",
       "Collateral and Security",
       "Risk Assessment",
       "Loan Structure and Terms",
       "Recommendation and Conclusion",
       "Executive Summary" >>

\* one group of the taxonomy: its prompt and the two flags the engine reads
\* with group.get(...) (an absent key reads as falsy)
Group(q, s, r) ==
    [user_query |-> q, include_for_summary |-> s, include_for_recommendation |-> r]

CREDIT_MEMO_SECTIONS ==
    [s \in {SECTION_KEYS[i] : i \in 1..Len(SECTION_KEYS)} |->
      CASE s = "Background, Management, and Ownership" ->
             << Group("BMO-1", FALSE, FALSE), Group("BMO-2", FALSE, TRUE),
                Group("BMO-3", TRUE, FALSE),  Group("BMO-4", FALSE, FALSE) >>
        [] s = "Financial Analysis" ->
             << Group("FA-1", FALSE, TRUE), Group("FA-2", TRUE, TRUE),
                Group("FA-3", FALSE, TRUE) >>
        [] s = "Collateral and Security" ->
             << Group("CS-1", FALSE, TRUE) >>
        [] s = "Risk Assessment" ->
             << Group("RA-1", TRUE, FALSE), Group("RA-2", TRUE, TRUE),
                Group("RA-3", TRUE, TRUE),  Group("RA-4", FALSE, TRUE),
                Group("RA-5", FALSE, TRUE), Group("RA-6", FALSE, FALSE) >>
        [] s = "Loan Structure and Terms" ->
             << Group("LST-1", TRUE, FALSE) >>
        [] s = "Recommendation and Conclusion" ->
             << Group("REC-1", TRUE, FALSE) >>
        [] s = "Executive Summary" ->
             << Group("ES-1", FALSE, FALSE) >> ]

Sections == DOMAIN CREDIT_MEMO_SECTIONS

\* section.replace('_', ' ').title()
Title(section) ==
    CASE section = "Background, Management, and Ownership" ->
           "Background, Management, And Ownership"
      [] section = "Collateral and Security" -> "Collateral And Security"
      [] section = "Loan Structure and Terms" -> "Loan Structure And Terms"
      [] section = "Recommendation and Conclusion" -> "Recommendation And Conclusion"
      [] OTHER -> section

---------------------------------------------------------------------------
\* Planning: the task lists handed to run_rag_tasks_in_parallel
RECURSIVE TasksOf(_, _)
TasksOf(section, groups) ==
    IF groups = <<>> THEN <<>>
    ELSE << <<section, Head(groups)>> >> \o TasksOf(section, Tail(groups))

\* a planning loop that sets only the summary section aside
RECURSIVE PlanParallel_summary_only(_)
PlanParallel_summary_only(keys) ==
    IF keys = <<>> THEN <<>>
    ELSE IF Head(keys) = "Executive Summary"
         THEN PlanParallel_summary_only(Tail(keys))
         ELSE TasksOf(Head(keys), CREDIT_MEMO_SECTIONS[Head(keys)])
                \o PlanParallel_summary_only(Tail(keys))

RECURSIVE PlanParallel(_)
PlanParallel(keys) ==
    IF keys = <<>> THEN <<>>
    ELSE IF Head(keys) \in {"Executive Summary", "Recommendation and Conclusion"}
         THEN PlanParallel(Tail(keys))
         ELSE TasksOf(Head(keys), CREDIT_MEMO_SECTIONS[Head(keys)])
                \o PlanParallel(Tail(keys))

AllParallelTasks == PlanParallel(SECTION_KEYS)

summary_group ==
    << "Executive Summary", CREDIT_MEMO_SECTIONS["Executive Summary"][1] >>

recommendation_group ==
    << "Recommendation and Conclusion",
       CREDIT_MEMO_SECTIONS["Recommendation and Conclusion"][1] >>

DependentSections == {summary_group[1], recommendation_group[1]}

---------------------------------------------------------------------------
\* What the LLM may return for a section's prompt: the empty string, a text,
\* or (the case the assembly looks for) a text whose first line repeats the
\* title "Executive Summary"
TITLE_LINE == "Executive Summary"

Answers(section, query) ==
    { Str(<<>>), Str(<<query>>) } \union
    (IF section = "Executive Summary" THEN { Str(<<TITLE_LINE, query>>) } ELSE {})

\* the block the engine puts in front of the summary context
BOILERPLATE == Str(<<"Loan Request and Proposed Structure">>)

\* a Future: never submitted, running, or done (returned a result / raised);
\* processed once the as_completed loop has handled it
NewFuture ==
    [state |-> "unsubmitted", result |-> None, processed |-> FALSE,
     submits |-> 0, context |-> <<>>]

Done(f) == f.state \in {"returned", "raised"}

\* executor.submit(fn, *args): the call starts running on a worker
Submit(f, ctx) ==
    [f EXCEPT !.state = "running", !.submits = @ + 1, !.context = ctx]

\* (variant: the task that raised is submitted again)
HandleException_resubmitted(f) ==
    [f EXCEPT !.state = "running", !.submits = @ + 1]

\* the except branch of an as_completed loop: the future is dealt with ...
HandleException(f) == [f EXCEPT !.processed = TRUE]

\* (variant: the exception leaves the loop and ends the run)
AfterException_propagated(position) == "failed"

\* ... the error is logged and the loop goes on from where it is
AfterException(position) == position

\* (variant: the summary task is skipped)
AfterJoin_recommendation == "submit_recommendation"

\* (variant: the engine returns right after the first pool)
AfterJoin_returned == "assembling"

\* what follows the first pool's with block: the dependent tasks
AfterJoin == "submit_summary"

\* (variant: the position of the first group with the same flags)
OriginalIndex_by_flags(section, group) ==
    CHOOSE i \in 1..Len(CREDIT_MEMO_SECTIONS[section]) :
       /\ CREDIT_MEMO_SECTIONS[section][i].include_for_summary
             = group.include_for_summary
       /\ CREDIT_MEMO_SECTIONS[section][i].include_for_recommendation
             = group.include_for_recommendation
       /\ \A j \in 1..(i-1) :
             \/ CREDIT_MEMO_SECTIONS[section][j].include_for_summary
                   # group.include_for_summary
             \/ CREDIT_MEMO_SECTIONS[section][j].include_for_recommendation
                   # group.include_for_recommendation

\* CREDIT_MEMO_SECTIONS[section].index(group), counted from 1
OriginalIndex(section, group) ==
    CHOOSE i \in 1..Len(CREDIT_MEMO_SECTIONS[section]) :
       /\ CREDIT_MEMO_SECTIONS[section][i] = group
       /\ \A j \in 1..(i-1) : CREDIT_MEMO_SECTIONS[section][j] # group

\* while len(lst) <= original_index: lst.append(None)
RECURSIVE PadTo(_, _)
PadTo(lst, n) == IF Len(lst) >= n THEN lst ELSE PadTo(Append(lst, None), n)

\* (variant: the answer is appended, in completion order)
StoreAnswer_appended(lst, idx, answer) == Append(lst, answer)

\* results[section][original_index] = answer, after the padding
StoreAnswer(lst, idx, answer) == [PadTo(lst, idx) EXCEPT ![idx] = answer]

\* (variant: the block is put last)
InsertBoilerplate_appended(ctx) == Append(ctx, BOILERPLATE)

\* summary_context.insert(0, <boilerplate>)
InsertBoilerplate(ctx) == <<BOILERPLATE>> \o ctx

\* if group.get(flag): context.append(answer)
AppendIf(flag, ctx, answer) == IF flag THEN Append(ctx, answer) ELSE ctx

---------------------------------------------------------------------------
\* Assembly of the final document
ContainsExecutiveSummary(line) == line = TITLE_LINE

\* the cleaning of one Executive Summary answer
Clean(ans) ==
    IF ans.lines # <<>> /\ ContainsExecutiveSummary(Head(ans.lines))
    THEN Str(Tail(ans.lines))
    ELSE ans

CleanAll(answers) == [i \in 1..Len(answers) |-> Clean(answers[i])]

\* what one pass of the endpoint's loop writes for a section
AppEntry(res, section) ==
    LET answers == res[section]
        shown   == IF answers # <<>> /\ section = "Executive Summary"
                   THEN CleanAll(answers) ELSE answers
    IN  [heading |-> Title(section), body |-> FilterNone(shown)]

RECURSIVE AppDocument(_, _)
AppDocument(res, order) ==
    IF order = <<>> THEN <<>>
    ELSE IF Head(order) \notin DOMAIN res
         THEN AppDocument(res, Tail(order))
         ELSE <<AppEntry(res, Head(order))>> \o AppDocument(res, Tail(order))

RECURSIVE PipelineDocument(_, _)
PipelineDocument(res, keys) ==
    IF keys = <<>> THEN <<>>
    ELSE IF res[Head(keys)] # <<>>
         THEN << [heading |-> Title(Head(keys)),
                  body |-> FilterNone(res[Head(keys)])] >>
                \o PipelineDocument(res, Tail(keys))
         ELSE PipelineDocument(res, Tail(keys))

---------------------------------------------------------------------------
VARIABLES
    entry,                  \* which program runs, "app" or "pipeline": both
                            \* run the same code up to a failure or the
                            \* assembly, where it is told apart
    pc,                     \* position of the request / of the engine
    parallel_tasks,         \* list of (section, group)
    futures,                \* one Future per entry of parallel_tasks
    dep_futures,            \* the Futures of the two dependent tasks
    results,                \* section -> list of answers / None
    summary_context,
    recommendation_context,
    completion_log,         \* indexes of parallel_tasks, in the order processed
    document,               \* the written report, None-like <<>> before
    error_message           \* message of the failure that ended the run

vars == << entry, pc, parallel_tasks, futures, dep_futures, results,
           summary_context, recommendation_context, completion_log,
           document, error_message >>

---------------------------------------------------------------------------
\* State of one call of RAGPipelineCosine.run (src/resources/rag.py)
VARIABLES
    run_pc,                     \* position of the call
    run_group,                  \* the group run: full_page, semantic_queries
    next_query,                 \* index of the sub-query the loop is at
    full_pages,                 \* the page manifest split_page_file holds
    seen,                       \* page numbers already included
    retrieved_docs_with_meta,   \* pairs collected in chunk mode
    all_docs,                   \* the context list
    matched                     \* every pair retrieve returned so far

runVars == << run_pc, run_group, next_query, full_pages, seen,
              retrieved_docs_with_meta, all_docs, matched >>

\* no call of run in progress
RunIdle ==
    /\ run_pc = "idle"
    /\ run_group = [full_page |-> FALSE, semantic_queries |-> <<>>]
    /\ next_query = 1
    /\ full_pages = <<>>
    /\ seen = {}
    /\ retrieved_docs_with_meta = <<>>
    /\ all_docs = <<>>
    /\ matched = <<>>

---------------------------------------------------------------------------
\* State of one call of RAGPipelineCosine.retrieve (src/resources/rag.py)
VARIABLES
    retrieve_pc,                \* position of the call
    n_results,                  \* k
    query_filter,               \* filter
    use_reranker,               \* rerank and self.use_reranker
    query_results,              \* what collection.query returned
    scores,                     \* the cross-encoder's score per candidate
    docs_with_meta              \* the list returned

retrieveVars == << retrieve_pc, n_results, query_filter, use_reranker,
                   query_results, scores, docs_with_meta >>

RetrieveIdle ==
    /\ retrieve_pc = "idle"
    /\ n_results = 0
    /\ query_filter = ""
    /\ use_reranker = FALSE
    /\ query_results = [documents |-> <<>>, metadatas |-> <<>>]
    /\ scores = <<>>
    /\ docs_with_meta = <<>>

---------------------------------------------------------------------------
\* State of MarkdownChunker.extract_chunks_from_markdown and of
\* split_md_by_page on one document (src/resources/chunker.py,
\* src/resources/split_md_by_page.py)
VARIABLES
    chunker_pc,                 \* position of the ingestion
    md_content,                 \* the markdown document
    max_tokens,                 \* config.MAX_TOKENS
    chunks,                     \* the chunks emitted
    page_contents               \* the page manifest written

chunkerVars == << chunker_pc, md_content, max_tokens, chunks, page_contents >>

ChunkerIdle ==
    /\ chunker_pc = "idle"
    /\ md_content = [marked |-> FALSE, parts |-> <<>>]
    /\ max_tokens = 0
    /\ chunks = <<>>
    /\ page_contents = <<>>

---------------------------------------------------------------------------
\* State of one call of MarkdownChunker.split_text_by_tokens
VARIABLES
    split_pc,                   \* position of the call
    split_text,                 \* text
    split_max_tokens,           \* max_tokens
    sub_texts                   \* the list returned

splitVars == << split_pc, split_text, split_max_tokens, sub_texts >>

SplitIdle ==
    /\ split_pc = "idle"
    /\ split_text = <<>>
    /\ split_max_tokens = 0
    /\ sub_texts = <<>>

---------------------------------------------------------------------------
\* State of the collection over the calls of MarkdownChunker.store_in_chromadb
VARIABLES
    store_pc,                   \* position of the ingestion in progress
    collection,                 \* id -> entry of the Chroma collection
    ingested,                   \* the chunks of the ingestion in progress or
                                \* last made
    ingestions                  \* number of ingestions started

storeVars == << store_pc, collection, ingested, ingestions >>

StoreIdle ==
    /\ store_pc = "idle"
    /\ collection = << >>
    /\ ingested = <<>>
    /\ ingestions = 0

---------------------------------------------------------------------------
\* State of MarkdownChunker.create_embeddings_and_index_async (it ends with
\* store_in_chromadb, whose state is above)
VARIABLES
    index_pc,                   \* position in the call
    batch_size,                 \* config.BATCH_SIZE
    batch_start,                \* i of the loop, counted from 1
    in_flight,                  \* chunks whose embedding request is pending
    responses,                  \* chunk -> what its request of this batch gave
    finished,                   \* chunks of this batch in order of completion
    all_embeddings              \* all_embeddings

indexVars == << index_pc, batch_size, batch_start, in_flight, responses,
                finished, all_embeddings >>

IndexIdle ==
    /\ index_pc = "idle"
    /\ batch_size = 0
    /\ batch_start = 1
    /\ in_flight = {}
    /\ responses = << >>
    /\ finished = <<>>
    /\ all_embeddings = <<>>

---------------------------------------------------------------------------
\* State of one call of extractor.extract_pdf
VARIABLES
    extract_pc,                 \* position in the call
    retries,                    \* the retries parameter
    attempt,                    \* attempt of the loop
    outcomes,                   \* what each request made so far gave
    waits,                      \* the time.sleep calls made so far, in seconds
    last_error                  \* last_error

extractVars == << extract_pc, retries, attempt, outcomes, waits, last_error >>

ExtractIdle ==
    /\ extract_pc = "idle"
    /\ retries = 0
    /\ attempt = 1
    /\ outcomes = <<>>
    /\ waits = <<>>
    /\ last_error = "None"

---------------------------------------------------------------------------

\* State of one call of RAGPipelineCosine.generate_answer and of the call of
\* LocalLLMAdapter.chat it makes
VARIABLES
    chat_pc,                    \* position in the call
    messages,                   \* the messages sent
    posts,                      \* what each requests.post made so far gave
    chat_result,                \* what chat returned
    generated                   \* what generate_answer returned

chatVars == << chat_pc, messages, posts, chat_result, generated >>

ChatIdle ==
    /\ chat_pc = "idle"
    /\ messages = <<>>
    /\ posts = <<>>
    /\ chat_result = None
    /\ generated = None

---------------------------------------------------------------------------

\* State of one request to generate_credit_memo: the generator event_stream
VARIABLES
    request_pc,                 \* position in event_stream
    req_id,                     \* request.req_id
    doc_count,                  \* len(request.doc_base64)
    extracted,                  \* number of pdfs extracted so far
    stream,                     \* what the generator has yielded so far
    temp_dir,                   \* pdf_file_path: unbound, or the directory
                                \* exists or has been removed
    invoked,                    \* the stages entered so far, in order
    failed_stage                \* the stage that raised, "none" if none did

requestVars == << request_pc, req_id, doc_count, extracted, stream, temp_dir,
                  invoked, failed_stage >>

RequestIdle ==
    /\ request_pc = "idle"
    /\ req_id = ""
    /\ doc_count = 0
    /\ extracted = 0
    /\ stream = <<>>
    /\ temp_dir = "unbound"
    /\ invoked = <<>>
    /\ failed_stage = "none"

---------------------------------------------------------------------------

\* State of the passes of the first as_completed loop of
\* run_rag_tasks_in_parallel, statement by statement: per thread, the future
\* it is handling and the shared list it is about to write or is writing
VARIABLES
    passes                      \* thread -> pass in progress

passVars == << passes >>

\* thread 0 is the caller of run_rag_tasks_in_parallel, thread i the worker
\* that ran task i
Threads == 0..MaxTasks

NoPass == [ future |-> 0, target |-> "none", writing |-> FALSE, seen_len |-> 0 ]

PassIdle == passes = [ t \in Threads |-> NoPass ]

---------------------------------------------------------------------------

\* State of the review queue (HITLEvaluator): the list of review items and
\* what the last call returned or raised
VARIABLES
    reviews,                    \* self._reviews (id, status, hallucination_types)
    reviews_file,               \* reviews.json as last written
    next_id,                    \* the ids handed out so far
    hitl_call                   \* the last call: its name, arguments and outcome

hitlVars == << reviews, reviews_file, next_id, hitl_call >>

NoCall == [ op |-> "none" ]

HitlIdle ==
    reviews = <<>> /\ reviews_file = <<>> /\ next_id = 1 /\ hitl_call = NoCall

\* State of one ReActAgent.run: the agent's step limit, the steps taken, the
\* calls made and what run returned
VARIABLES
    react_pc,                   \* "loop" -> "returned"
    max_steps,                  \* self.max_steps
    steps,                      \* the list of AgentStep
    llm_calls,                  \* calls of self.llm.chat
    tool_calls,                 \* calls of a function of self.tools
    react_answer                \* the first element of the tuple returned

reactVars == << react_pc, max_steps, steps, llm_calls, tool_calls, react_answer >>

ReactIdle ==
    /\ react_pc = "idle"
    /\ max_steps = 0
    /\ steps = <<>>
    /\ llm_calls = 0
    /\ tool_calls = 0
    /\ react_answer = None

\* State of the MCP server: its two registries, the request being handled
\* last, what call_tool did for it and what handle_mcp_request answered
VARIABLES
    mcp_tools,                  \* the keys of mcp_server.tools
    mcp_resources,              \* the keys of mcp_server.resources
    mcp_request,                \* the last request
    call_outcome,               \* what call_tool returned or raised for it
    mcp_response                \* what handle_mcp_request returned or raised

mcpVars == << mcp_tools, mcp_resources, mcp_request, call_outcome, mcp_response >>

NoRequest == [ method |-> "none" ]

NotCalled == [ called |-> FALSE ]

NoResponse == [ raised |-> "none" ]

McpIdle ==
    /\ mcp_tools = {}
    /\ mcp_resources = {}
    /\ mcp_request = NoRequest
    /\ call_outcome = NotCalled
    /\ mcp_response = NoResponse

\* State of one MultiAgentOrchestrator.generate_credit_memo: where the
\* coroutine is, the context it was given, and per agent the state of its
\* process call, the context it received and what it returned
VARIABLES
    memo_pc,                    \* "phase1" -> "phase2" -> "returned" / "raised"
    memo_context,               \* the context argument
    agent_state,                \* role -> "pending", "running", "returned", "raised"
    agent_context,              \* role -> the context given to process
    agent_output,               \* role -> what process returned
    agent_memo                  \* the dictionary returned

agentVars ==
    << memo_pc, memo_context, agent_state, agent_context, agent_output,
       agent_memo >>

\* AgentRole, by value
AgentRoles ==
    { "financial_analyst", "risk_analyst", "compliance_reviewer", "orchestrator" }

AgentIdle ==
    /\ memo_pc = "idle"
    /\ memo_context = ""
    /\ agent_state = [ r \in AgentRoles |-> "pending" ]
    /\ agent_context = [ r \in AgentRoles |-> <<>> ]
    /\ agent_output = [ r \in AgentRoles |-> "" ]
    /\ agent_memo = <<>>

\* the state of the parts that follow the store
laterVars == << indexVars, extractVars, chatVars, requestVars, passVars, hitlVars, reactVars, mcpVars, agentVars >>

LaterIdle == IndexIdle /\ ExtractIdle /\ ChatIdle /\ RequestIdle /\ PassIdle /\ HitlIdle /\ ReactIdle /\ McpIdle /\ AgentIdle

---------------------------------------------------------------------------

\* the state outside the orchestration engine
besidesEngine == << runVars, retrieveVars, chunkerVars, splitVars, storeVars,
    laterVars >>

BesidesEngineIdle ==
    RunIdle /\ RetrieveIdle /\ ChunkerIdle /\ SplitIdle /\ StoreIdle /\ LaterIdle

\* the runs explored: at most MaxTasks consecutive tasks of the planner's
\* list (a task left out is a task that raised, as far as results go)
Windows ==
    { SubSeq(AllParallelTasks, w[1], w[1] + w[2] - 1) :
        w \in { v \in (1..Len(AllParallelTasks)) \X (1..MaxTasks) :
                   v[1] + v[2] - 1 <= Len(AllParallelTasks) } }

EngineInit ==
    /\ entry = ""
    /\ pc = "planning"
    /\ parallel_tasks = <<>>
    /\ futures = <<>>
    /\ dep_futures = [s \in DependentSections |-> NewFuture]
    /\ results = [s \in Sections |-> <<>>]
    /\ summary_context = <<>>
    /\ recommendation_context = <<>>
    /\ completion_log = <<>>
    /\ document = <<>>
    /\ error_message = ""

Init == EngineInit /\ BesidesEngineIdle

---------------------------------------------------------------------------
\* generate_credit_memo / main, up to the call of the engine: the rag is
\* built, the page manifest written and the taxonomy expanded into tasks
Plan ==
    /\ pc = "planning"
    /\ parallel_tasks' \in Windows
    /\ futures' = [i \in 1..Len(parallel_tasks') |-> NewFuture]
    /\ pc' = "submit_independent"
    /\ UNCHANGED << entry, dep_futures, results, summary_context,
                    recommendation_context, completion_log, document,
                    error_message >>
    /\ UNCHANGED besidesEngine

\* the rag constructor or split_md_by_page raises
PlanFails ==
    /\ pc = "planning"
    /\ pc' = "failed"
    /\ entry' \in {"app", "pipeline"}
    /\ error_message' = IF entry' = "app"
                        THEN "Error occurred while generating report"
                        ELSE "Traceback"
    /\ UNCHANGED << parallel_tasks, futures, dep_futures, results,
                    summary_context, recommendation_context, completion_log,
                    document >>
    /\ UNCHANGED besidesEngine

\* first pool: executor.submit(rag.run, ...) for the tasks, in list order
AllSubmitted == \A i \in 1..Len(futures) : futures[i].state # "unsubmitted"

SubmitIndependent ==
    /\ pc = "submit_independent"
    /\ ~AllSubmitted
    /\ LET i == CHOOSE k \in 1..Len(futures) :
                   /\ futures[k].state = "unsubmitted"
                   /\ \A j \in 1..(k-1) : futures[j].state # "unsubmitted"
       IN  /\ futures' = [futures EXCEPT ![i] = Submit(@, <<>>)]
           \* after the last one the engine enters the as_completed loop
           /\ pc' = IF i = Len(futures) THEN "as_completed_independent" ELSE pc
    /\ UNCHANGED << entry, parallel_tasks, dep_futures, results,
                    summary_context, recommendation_context, completion_log,
                    document, error_message >>
    /\ UNCHANGED besidesEngine

\* a worker: rag.run(group, ...) returns an answer
RunReturns(i) ==
    /\ futures[i].state = "running"
    /\ \E a \in Answers(parallel_tasks[i][1], parallel_tasks[i][2].user_query) :
          futures' = [futures EXCEPT ![i].state = "returned", ![i].result = a]
    /\ UNCHANGED << entry, pc, parallel_tasks, dep_futures, results,
                    summary_context, recommendation_context, completion_log,
                    document, error_message >>
    /\ UNCHANGED besidesEngine

\* a worker: rag.run(group, ...) raises
RunRaises(i) ==
    /\ futures[i].state = "running"
    /\ futures' = [futures EXCEPT ![i].state = "raised"]
    /\ UNCHANGED << entry, pc, parallel_tasks, dep_futures, results,
                    summary_context, recommendation_context, completion_log,
                    document, error_message >>
    /\ UNCHANGED besidesEngine

\* one pass of the loop over as_completed, for a future that is done
ProcessIndependent(i) ==
    /\ pc = "as_completed_independent"
    /\ Done(futures[i])
    /\ ~futures[i].processed
    /\ LET section == parallel_tasks[i][1]
           group   == parallel_tasks[i][2]
           answer  == futures[i].result
       IN  IF futures[i].state = "returned"
           THEN /\ results' = [results EXCEPT ![section] =
                      StoreAnswer(@, OriginalIndex(section, group), answer)]
                /\ summary_context' =
                      AppendIf(group.include_for_summary, summary_context, answer)
                /\ recommendation_context' =
                      AppendIf(group.include_for_recommendation,
                               recommendation_context, answer)
                /\ futures' = [futures EXCEPT ![i].processed = TRUE]
                /\ pc' = pc
           ELSE /\ futures' = [futures EXCEPT ![i] = HandleException(@)]
                /\ pc' = AfterException(pc)
                /\ UNCHANGED << results, summary_context, recommendation_context >>
    /\ completion_log' = Append(completion_log, i)
    /\ UNCHANGED << entry, parallel_tasks, dep_futures, document,
                    error_message >>
    /\ UNCHANGED besidesEngine

\* (variant: the loop is left at the first future handled)
AllProcessed_first(fs) == \E i \in DOMAIN fs : fs[i].processed

\* every future has been yielded and handled; the with block waits for the
\* pool and the engine goes on to the dependent tasks
AllProcessed(fs) == \A i \in DOMAIN fs : fs[i].processed

JoinIndependent ==
    /\ pc = "as_completed_independent"
    /\ AllProcessed(futures)
    /\ pc' = AfterJoin
    /\ UNCHANGED << entry, parallel_tasks, futures, dep_futures, results,
                    summary_context, recommendation_context, completion_log,
                    document, error_message >>
    /\ UNCHANGED besidesEngine

\* second pool: the Executive Summary task, with the boilerplate put first
SubmitSummary ==
    /\ pc = "submit_summary"
    /\ summary_context' = InsertBoilerplate(summary_context)
    /\ dep_futures' = [dep_futures EXCEPT ![summary_group[1]] =
                          Submit(@, summary_context')]
    /\ pc' = "submit_recommendation"
    /\ UNCHANGED << entry, parallel_tasks, futures, results,
                    recommendation_context, completion_log, document,
                    error_message >>
    /\ UNCHANGED besidesEngine

\* second pool: the Recommendation and Conclusion task
SubmitRecommendation ==
    /\ pc = "submit_recommendation"
    /\ dep_futures' = [dep_futures EXCEPT ![recommendation_group[1]] =
                          Submit(@, recommendation_context)]
    /\ pc' = "as_completed_dependent"
    /\ UNCHANGED << entry, parallel_tasks, futures, results, summary_context,
                    recommendation_context, completion_log, document,
                    error_message >>
    /\ UNCHANGED besidesEngine

\* a worker: rag.generate_answer(user_query, context) returns
GenerateReturns(s) ==
    /\ dep_futures[s].state = "running"
    /\ \E a \in Answers(s, CREDIT_MEMO_SECTIONS[s][1].user_query) :
          dep_futures' = [dep_futures EXCEPT ![s].state = "returned",
                                             ![s].result = a]
    /\ UNCHANGED << entry, pc, parallel_tasks, futures, results,
                    summary_context, recommendation_context, completion_log,
                    document, error_message >>
    /\ UNCHANGED besidesEngine

\* a worker: rag.generate_answer(user_query, context) raises
GenerateRaises(s) ==
    /\ dep_futures[s].state = "running"
    /\ dep_futures' = [dep_futures EXCEPT ![s].state = "raised"]
    /\ UNCHANGED << entry, pc, parallel_tasks, futures, results,
                    summary_context, recommendation_context, completion_log,
                    document, error_message >>
    /\ UNCHANGED besidesEngine

\* one pass of the second as_completed loop
ProcessDependent(s) ==
    /\ pc = "as_completed_dependent"
    /\ Done(dep_futures[s])
    /\ ~dep_futures[s].processed
    /\ IF dep_futures[s].state = "returned"
       THEN /\ results' = [results EXCEPT ![s] = Append(@, dep_futures[s].result)]
            /\ dep_futures' = [dep_futures EXCEPT ![s].processed = TRUE]
            /\ pc' = pc
       ELSE /\ dep_futures' = [dep_futures EXCEPT ![s] = HandleException(@)]
            /\ pc' = AfterException(pc)
            /\ UNCHANGED results
    /\ UNCHANGED << entry, parallel_tasks, futures, summary_context,
                    recommendation_context, completion_log, document,
                    error_message >>
    /\ UNCHANGED besidesEngine

\* return results
Return ==
    /\ pc = "as_completed_dependent"
    /\ AllProcessed(dep_futures)
    /\ pc' = "assembling"
    /\ UNCHANGED << entry, parallel_tasks, futures, dep_futures, results,
                    summary_context, recommendation_context, completion_log,
                    document, error_message >>
    /\ UNCHANGED besidesEngine

\* the report file is written and the run ends
Assemble ==
    /\ pc = "assembling"
    /\ entry' \in {"app", "pipeline"}
    /\ document' = IF entry' = "app"
                   THEN AppDocument(results, SECTION_ORDER)
                   ELSE PipelineDocument(results, SECTION_KEYS)
    /\ pc' = "done"
    /\ UNCHANGED << parallel_tasks, futures, dep_futures, results,
                    summary_context, recommendation_context, completion_log,
                    error_message >>
    /\ UNCHANGED besidesEngine

\* opening or writing the report file raises
AssembleFails ==
    /\ pc = "assembling"
    /\ pc' = "failed"
    /\ entry' \in {"app", "pipeline"}
    /\ error_message' = IF entry' = "app"
                        THEN "Error occurred while finalizing report"
                        ELSE "Traceback"
    /\ UNCHANGED << parallel_tasks, futures, dep_futures, results,
                    summary_context, recommendation_context, completion_log,
                    document >>
    /\ UNCHANGED besidesEngine

Next ==
    \/ Plan
    \/ PlanFails
    \/ SubmitIndependent
    \/ \E i \in 1..Len(futures) : RunReturns(i)
    \/ \E i \in 1..Len(futures) : RunRaises(i)
    \/ \E i \in 1..Len(futures) : ProcessIndependent(i)
    \/ JoinIndependent
    \/ SubmitSummary
    \/ SubmitRecommendation
    \/ \E s \in DependentSections : GenerateReturns(s)
    \/ \E s \in DependentSections : GenerateRaises(s)
    \/ \E s \in DependentSections : ProcessDependent(s)
    \/ Return
    \/ Assemble
    \/ AssembleFails

Spec == Init /\ [][Next]_vars

\* every worker call ends and the engine thread keeps running
FairSpec == Spec /\ WF_vars(Next)

---------------------------------------------------------------------------
\* Properties

\* the tasks of parallel_tasks that belong to a section
TasksIn(section) ==
    { i \in 1..Len(parallel_tasks) : parallel_tasks[i][1] = section }

\* the position a task's group has in its section's configured list
ConfiguredPosition(i) ==
    CHOOSE k \in 1..Len(CREDIT_MEMO_SECTIONS[parallel_tasks[i][1]]) :
        CREDIT_MEMO_SECTIONS[parallel_tasks[i][1]][k] = parallel_tasks[i][2]

\* the tasks whose answer the engine has taken over
Stored(section) ==
    { i \in TasksIn(section) :
        futures[i].processed /\ futures[i].state = "returned" }

Max(S) == CHOOSE m \in S : \A n \in S : n <= m

\* what a section's list must be, given only which tasks returned what
ExpectedSlots(section) ==
    LET done == Stored(section)
        top  == IF done = {} THEN 0 ELSE Max({ConfiguredPosition(i) : i \in done})
    IN  [k \in 1..top |->
           IF \E i \in done : ConfiguredPosition(i) = k
           THEN futures[CHOOSE i \in done : ConfiguredPosition(i) = k].result
           ELSE None]

\* C1: whatever the order of completion, the answer of each successful
\* independent task sits at the index its group has in
\* CREDIT_MEMO_SECTIONS[section]; a section's list is thus a function of the
\* task outcomes alone, the same for every completion order.
C1_AnswersAtConfiguredIndex ==
    \A section \in Sections \ DependentSections :
        results[section] = ExpectedSlots(section)

\* two tasks of one section handled in the reverse of their list order, both
\* with an answer
C1_Witness ==
    /\ pc = "done"
    /\ Len(completion_log) = 2
    /\ completion_log[1] > completion_log[2]
    /\ parallel_tasks[1][1] = parallel_tasks[2][1]
    /\ \A i \in 1..2 : futures[i].state = "returned" /\ Truthy(futures[i].result)

\* C2: no dependent task is submitted before every independent task is done
\* (returned or raised) and has been handled by the engine.
C2_JoinBarrier ==
    (\E s \in DependentSections : dep_futures[s].state # "unsubmitted")
        => \A i \in 1..Len(futures) : Done(futures[i]) /\ futures[i].processed

\* the summary task is running after two independent tasks, one of which raised
C2_Witness ==
    /\ dep_futures[summary_group[1]].state = "running"
    /\ Len(futures) = 2
    /\ \E i \in 1..2 : futures[i].state = "raised"
    /\ \E i \in 1..2 : futures[i].state = "returned"

\* every task that returned has its answer in its section's list
SucceededRecorded ==
    /\ \A i \in 1..Len(futures) :
          futures[i].state = "returned" =>
             \E k \in 1..Len(results[parallel_tasks[i][1]]) :
                results[parallel_tasks[i][1]][k] = futures[i].result
    /\ \A s \in DependentSections :
          dep_futures[s].state = "returned" =>
             \E k \in 1..Len(results[s]) : results[s][k] = dep_futures[s].result

\* a task that is running stays running or ends by itself: nothing cancels it
NoSiblingAborted ==
    /\ \A i \in 1..Len(futures) :
          futures[i].state = "running" =>
             futures'[i].state \in {"running", "returned", "raised"}
    /\ \A s \in DependentSections :
          dep_futures[s].state = "running" =>
             dep_futures'[s].state \in {"running", "returned", "raised"}

\* the run is ended with a failure only by the planning or the assembly stage
FailedOnlyByStage == pc' = "failed" => pc \in {"planning", "assembling", "failed"}

\* C3: whichever tasks raise, the engine returns (as every worker call ends),
\* with the answer of every task that succeeded in its section's list; no
\* other task is aborted, and no task failure ends the run as failed.
C3_FailureIsolation ==
    /\ [](pc \in {"assembling", "done"} =>
            /\ SucceededRecorded
            /\ \A i \in 1..Len(futures) : Done(futures[i])
            /\ \A s \in DependentSections : Done(dep_futures[s]))
    /\ [][NoSiblingAborted /\ FailedOnlyByStage]_vars
    /\ (pc = "submit_independent") ~> (pc = "assembling")

\* the engine has returned from a run in which an independent and a dependent
\* task raised and another task succeeded
C3_Witness ==
    /\ pc = "assembling"
    /\ \E i \in 1..Len(futures) : futures[i].state = "raised"
    /\ \E i \in 1..Len(futures) : futures[i].state = "returned"
    /\ dep_futures[summary_group[1]].state = "raised"
    /\ dep_futures[recommendation_group[1]].state = "returned"

\* the phase of the orchestration a position belongs to
Phase(position) ==
    CASE position = "planning" -> "PLANNING"
      [] position \in {"submit_independent", "as_completed_independent"} ->
            "INDEPENDENT_RUNNING"
      [] position \in {"submit_summary", "submit_recommendation",
                       "as_completed_dependent"} -> "DEPENDENT_RUNNING"
      [] position = "assembling" -> "ASSEMBLING"
      [] position = "done" -> "DONE"
      [] position = "failed" -> "FAILED"

\* a phase is left only for the next one, or for FAILED
PhaseStep(from, to) ==
    \/ to = from
    \/ to = "FAILED"
    \/ from = "PLANNING" /\ to = "INDEPENDENT_RUNNING"
    \/ from = "INDEPENDENT_RUNNING" /\ to = "DEPENDENT_RUNNING"
    \/ from = "DEPENDENT_RUNNING" /\ to = "ASSEMBLING"
    \/ from = "ASSEMBLING" /\ to = "DONE"

\* C10: as every submitted task returns or raises, a run goes through
\* INDEPENDENT_RUNNING, DEPENDENT_RUNNING and ASSEMBLING in that order without
\* going back, and ends: DONE, or FAILED by an error of the planning or the
\* assembly stage and never by a task.
C10_PhasesInOrderToDone ==
    /\ [][PhaseStep(Phase(pc), Phase(pc')) /\ FailedOnlyByStage]_vars
    /\ [][Phase(pc) \in {"DONE", "FAILED"} => pc' = pc]_vars
    /\ <>(Phase(pc) \in {"DONE", "FAILED"})

\* a run in which tasks raised has reached DONE
C10_Witness ==
    /\ Phase(pc) = "DONE"
    /\ \E i \in 1..Len(futures) : futures[i].state = "raised"
    /\ \E s \in DependentSections : dep_futures[s].state = "raised"

---------------------------------------------------------------------------
\* the answers of the tasks that returned and carry a flag, in the order the
\* engine handled the tasks
RECURSIVE FlaggedAnswers(_, _)
FlaggedAnswers(log, flag) ==
    IF log = <<>> THEN <<>>
    ELSE LET i     == Head(log)
             group == parallel_tasks[i][2]
             on    == IF flag = "include_for_summary"
                      THEN group.include_for_summary
                      ELSE group.include_for_recommendation
         IN  (IF futures[i].state = "returned" /\ on
              THEN <<futures[i].result>> ELSE <<>>)
               \o FlaggedAnswers(Tail(log), flag)

\* C5: the Executive Summary task is submitted with the boilerplate block at
\* index 0 followed by exactly the answers of the independent tasks flagged
\* include_for_summary that returned, each once, in completion order; the
\* recommendation task with exactly the answers flagged
\* include_for_recommendation and no boilerplate.  A task that raised or
\* carries no flag adds nothing.
C5_ContextsAtSubmission ==
    /\ dep_futures[summary_group[1]].state # "unsubmitted" =>
          dep_futures[summary_group[1]].context =
             <<BOILERPLATE>> \o FlaggedAnswers(completion_log, "include_for_summary")
    /\ dep_futures[recommendation_group[1]].state # "unsubmitted" =>
          dep_futures[recommendation_group[1]].context =
             FlaggedAnswers(completion_log, "include_for_recommendation")

\* both dependent tasks submitted after a flagged task raised and a task
\* flagged for both contexts returned
C5_Witness ==
    /\ dep_futures[recommendation_group[1]].state = "running"
    /\ Len(dep_futures[summary_group[1]].context) = 2
    /\ Len(dep_futures[recommendation_group[1]].context) = 1
    /\ \E i \in 1..Len(futures) :
          /\ futures[i].state = "raised"
          /\ parallel_tasks[i][2].include_for_summary

IndependentAllHandled ==
    \A i \in 1..Len(futures) : Done(futures[i]) /\ futures[i].processed

\* C6 as stated: the Executive Summary task runs only after all independent
\* tasks have completed, and the Recommendation and Conclusion task only
\* after the Executive Summary task has completed.
C6_RecommendationAfterSummaryDone ==
    /\ dep_futures[summary_group[1]].state # "unsubmitted" => IndependentAllHandled
    /\ dep_futures[recommendation_group[1]].state # "unsubmitted" =>
          Done(dep_futures[summary_group[1]])

\* C6 (amended): the Executive Summary task runs only after all independent
\* tasks have completed; the Recommendation and Conclusion task runs only
\* after all independent tasks have completed and after the Executive
\* Summary task has been submitted, without waiting for it to complete.
C6_DependentOrder ==
    /\ dep_futures[summary_group[1]].state # "unsubmitted" => IndependentAllHandled
    /\ dep_futures[recommendation_group[1]].state # "unsubmitted" =>
          /\ IndependentAllHandled
          /\ dep_futures[summary_group[1]].state # "unsubmitted"

\* the recommendation task has completed and been handled while the summary
\* task is still running
C6_Witness ==
    /\ dep_futures[recommendation_group[1]].state = "returned"
    /\ dep_futures[recommendation_group[1]].processed
    /\ dep_futures[summary_group[1]].state = "running"
    /\ Len(futures) = 2

\* the place of a heading in the display order, 0 if it is not in it
DisplayRank(heading) ==
    IF \E k \in 1..Len(SECTION_ORDER) : Title(SECTION_ORDER[k]) = heading
    THEN CHOOSE k \in 1..Len(SECTION_ORDER) : Title(SECTION_ORDER[k]) = heading
    ELSE 0

\* C7: the final document lists its sections in the order of SECTION_ORDER
\* (Executive Summary first, Recommendation and Conclusion last), each
\* heading at most once.
C7_DisplayOrder ==
    pc = "done" =>
       /\ \A k \in 1..Len(document) : DisplayRank(document[k].heading) > 0
       /\ \A k \in 1..(Len(document) - 1) :
             DisplayRank(document[k].heading) < DisplayRank(document[k+1].heading)

\* the entries of the document written for a section
EntriesOf(section) ==
    { k \in 1..Len(document) : document[k].heading = Title(section) }

\* C8: a section whose result list is empty or holds only None / empty
\* answers gets neither a heading nor a body in the final document.
C8_EmptySectionsSkipped ==
    pc = "done" =>
       \A section \in Sections :
          FilterNone(results[section]) = <<>> => EntriesOf(section) = {}

\* the body a section is to have: the non-empty answers of its tasks that
\* returned, in configuration order
ExpectedBody(section) ==
    IF section \in DependentSections
    THEN IF dep_futures[section].state = "returned"
         THEN FilterNone(<< IF section = "Executive Summary"
                            THEN Clean(dep_futures[section].result)
                            ELSE dep_futures[section].result >>)
         ELSE <<>>
    ELSE FilterNone(ExpectedSlots(section))

Raised ==
    { <<parallel_tasks[i][1], i>> : i \in { j \in 1..Len(futures) :
                                              futures[j].state = "raised" } }
    \union { <<s, 0>> : s \in { t \in DependentSections :
                                  dep_futures[t].state = "raised" } }

\* C4: when exactly one task raises, the final document holds the answer of
\* every other group once, under its section and in configuration order, and
\* nothing for the group that failed: no None, no placeholder, and no entry
\* for its section if the section has no other answer.
C4_PartialFailure ==
    (pc = "done" /\ Cardinality(Raised) = 1) =>
       \A section \in Sections :
          IF ExpectedBody(section) # <<>>
          THEN /\ Cardinality(EntriesOf(section)) = 1
               /\ \A k \in EntriesOf(section) :
                     document[k].body = ExpectedBody(section)
          ELSE (\E r \in Raised : r[1] = section) => EntriesOf(section) = {}

\* C9: every independent and dependent task is submitted exactly once in a
\* run; a task that raised is not submitted again and its slot stays empty.
C9_SubmittedOnce ==
    /\ \A i \in 1..Len(futures) : futures[i].submits <= 1
    /\ \A s \in DependentSections : dep_futures[s].submits <= 1
    /\ pc \notin {"planning", "submit_independent", "failed"} =>
          \A i \in 1..Len(futures) : futures[i].submits = 1
    /\ pc \in {"as_completed_dependent", "assembling", "done"} =>
          \A s \in DependentSections : dep_futures[s].submits = 1
    /\ pc \in {"assembling", "done"} =>
          /\ \A i \in 1..Len(futures) :
                futures[i].state = "raised" =>
                   \/ Len(results[parallel_tasks[i][1]]) < ConfiguredPosition(i)
                   \/ results[parallel_tasks[i][1]][ConfiguredPosition(i)] = None
          /\ \A s \in DependentSections :
                dep_futures[s].state = "raised" => results[s] = <<>>

\* the engine has returned from a run in which an independent task and a
\* dependent task raised
C9_Witness ==
    /\ pc = "assembling"
    /\ Len(futures) = 2
    /\ futures[1].state = "raised"
    /\ futures[2].state = "returned"
    /\ dep_futures[recommendation_group[1]].state = "raised"

---------------------------------------------------------------------------
\* every (section, group) pair of the taxonomy
TaxonomyTasks ==
    UNION { { <<s, CREDIT_MEMO_SECTIONS[s][i]>> :
                i \in DOMAIN CREDIT_MEMO_SECTIONS[s] } : s \in Sections }

\* the first group of a dependent section
FirstOfDependent(t) ==
    /\ t[1] \in {"Executive Summary", "Recommendation and Conclusion"}
    /\ t[2] = CREDIT_MEMO_SECTIONS[t[1]][1]

SectionPosition(section) ==
    CHOOSE i \in 1..Len(SECTION_KEYS) : SECTION_KEYS[i] = section

\* t stands before u in the taxonomy
ConfiguredBefore(t, u) ==
    \/ SectionPosition(t[1]) < SectionPosition(u[1])
    \/ /\ t[1] = u[1]
       /\ OriginalIndex(t[1], t[2]) < OriginalIndex(u[1], u[2])

\* C11: the planner partitions the taxonomy: the independent list holds
\* every group except the first group of the two dependent sections, each
\* once and in configuration order; the two dependent tasks are the first
\* groups of "Executive Summary" and "Recommendation and Conclusion"; no
\* group is dropped and none is both independent and dependent.  The tasks
\* the engine is given as independent are tasks of that list.
C11_PlannerPartition ==
    LET independent == { AllParallelTasks[i] : i \in 1..Len(AllParallelTasks) }
        dependent == { summary_group, recommendation_group }
    IN  /\ independent = { t \in TaxonomyTasks : ~FirstOfDependent(t) }
        /\ \A i, j \in 1..Len(AllParallelTasks) :
              i < j => ConfiguredBefore(AllParallelTasks[i], AllParallelTasks[j])
        /\ dependent = { t \in TaxonomyTasks : FirstOfDependent(t) }
        /\ Cardinality(dependent) = Cardinality(DependentSections)
        /\ independent \union dependent = TaxonomyTasks
        /\ independent \intersect dependent = {}
        /\ pc \notin {"planning", "failed"} =>
              /\ \A i \in 1..Len(parallel_tasks) :
                    parallel_tasks[i] \in independent \ dependent
              /\ DOMAIN dep_futures = { t[1] : t \in dependent }

\* the engine has been handed independent tasks and the two dependent ones
C11_Witness ==
    /\ pc = "submit_independent"
    /\ Len(parallel_tasks) = MaxTasks
    /\ parallel_tasks[MaxTasks] = AllParallelTasks[Len(AllParallelTasks)]
    /\ DOMAIN dep_futures = {summary_group[1], recommendation_group[1]}

---------------------------------------------------------------------------
\* The collection a run reads.  The vector store is a collaborator: a query
\* returns the best matches it holds, in its own order of distance.

\* number of chunks in the collection
MaxStored == 3
\* largest k of a sub-query
MaxK == 2
\* largest number of sub-queries of a group
MaxQueries == 2

\* the chunk stored under id i: its text and its metadata.  Two consecutive
\* chunks hold the same text; the page of chunk i is i \div 2, so that chunk
\* 1 is text from before the first page marker; every third chunk carries
\* the type "loan" that the taxonomy filters on
StoredChunk(i) ==
    [ document |-> << "chunk text", (i + 1) \div 2 >>,
      metadata |-> [ page |-> i \div 2,
                     type |-> CASE i % 3 = 1 -> "text"
                                [] i % 3 = 2 -> "table"
                                [] OTHER     -> "loan" ] ]

\* filter=None
NoFilter == ""

Filters == { NoFilter, "loan" }

\* ids of the chunks a query with the filter can return (where={"type": filter})
Matching(filter) ==
    { i \in 1..MaxStored :
        filter = NoFilter \/ StoredChunk(i).metadata.type = filter }

Smaller(a, b) == IF a <= b THEN a ELSE b

\* the ways to rank n distinct elements of S
Rankings(S, n) ==
    { r \in [1..n -> S] : \A a, b \in 1..n : a # b => r[a] # r[b] }

\* what retrieve(query, k, filter) can return: k pairs
\* (document, metadata) of distinct matching chunks, or all of them if the
\* collection holds fewer
RetrieveResults(k, filter) ==
    { [ j \in 1..Len(r) |->
          << StoredChunk(r[j]).document, StoredChunk(r[j]).metadata >> ] :
        r \in Rankings(Matching(filter),
                       Smaller(k, Cardinality(Matching(filter)))) }

---------------------------------------------------------------------------
\* RAGPipelineCosine.run

\* lst[i] of Python: defined for -len <= i < len, counted from the end for
\* a negative i
PyHasIndex(lst, i) == -Len(lst) <= i /\ i < Len(lst)

PyIndex(lst, i) == IF i >= 0 THEN lst[i + 1] ELSE lst[Len(lst) + i + 1]

\* (variant: the page is never taken as seen)
PageSeen_never(page, seen_pages) == FALSE

\* page not in seen, negated
PageSeen(page, seen_pages) == page \in seen_pages

\* the loop over the pairs of one sub-query in full-page mode; st holds
\* seen, all_docs and whether full_pages[page-1] raised IndexError
RECURSIVE FullPageLoop(_, _, _)
FullPageLoop(pairs, st, pages) ==
    IF pairs = <<>> \/ st.raised THEN st
    ELSE LET doc  == Head(pairs)[1]
             meta == Head(pairs)[2]
             page == meta.page
         IN  FullPageLoop(Tail(pairs),
                 IF meta.type = "loan"
                 THEN [st EXCEPT !.all_docs = Append(@, doc)]
                 ELSE IF ~PageSeen(page, st.seen)
                      THEN IF PyHasIndex(pages, page - 1)
                           THEN [ seen |-> st.seen \union {page},
                                  all_docs |-> Append(st.all_docs,
                                                      PyIndex(pages, page - 1)),
                                  raised |-> FALSE ]
                           ELSE [ st EXCEPT !.seen = @ \union {page},
                                            !.raised = TRUE ]
                      ELSE st,
                 pages)

\* [doc for doc, meta in retrieved_docs_with_meta]
DocsOf(pairs) ==
    [ i \in 1..Len(pairs) |-> pairs[i][1] ]

\* OrderedDict.fromkeys(docs): a key is inserted when first met
RECURSIVE FromKeys(_, _)
FromKeys(docs, keys) ==
    IF docs = <<>> THEN keys
    ELSE FromKeys(Tail(docs),
                  IF \E i \in 1..Len(keys) : keys[i] = Head(docs)
                  THEN keys ELSE Append(keys, Head(docs)))

\* (variant: the list is handed on as collected)
Dedupe_none(docs) == docs

\* list(OrderedDict.fromkeys(docs))
Dedupe(docs) == FromKeys(docs, <<>>)

\* the groups run: either mode, one to MaxQueries sub-queries
SubQueries == [ k : 1..MaxK, filter : Filters ]

RunGroups ==
    { [ full_page |-> fp, semantic_queries |-> qs ] :
        fp \in BOOLEAN,
        qs \in UNION { [1..n -> SubQueries] : n \in 1..MaxQueries } }

\* the manifest of a document with page markers (one text per marker, up to
\* the page of the last chunk), and of a document without any (empty)
Manifests ==
    { <<>>, [ p \in 1..(MaxStored \div 2) |-> << "page text", p >> ] }

besidesRun == << vars, retrieveVars, chunkerVars, splitVars, storeVars,
    laterVars >>

BesidesRunIdle ==
    EngineInit /\ RetrieveIdle /\ ChunkerIdle /\ SplitIdle /\ StoreIdle /\ LaterIdle

\* run(group, split_page_file, financial_data) is called
RunInit ==
    /\ run_pc = "retrieving"
    /\ run_group \in RunGroups
    /\ next_query = 1
    /\ full_pages \in Manifests
    /\ seen = {}
    /\ retrieved_docs_with_meta = <<>>
    /\ all_docs = <<>>
    /\ matched = <<>>
    /\ BesidesRunIdle

\* full-page mode: one sub-query is retrieved and its pairs gone through
RetrieveFullPage ==
    /\ run_pc = "retrieving"
    /\ run_group.full_page
    /\ next_query <= Len(run_group.semantic_queries)
    /\ LET q == run_group.semantic_queries[next_query]
       IN  \E pairs \in RetrieveResults(q.k, q.filter) :
             LET st == FullPageLoop(pairs,
                                    [ seen |-> seen, all_docs |-> all_docs,
                                      raised |-> FALSE ],
                                    full_pages)
             IN  /\ matched' = matched \o pairs
                 /\ seen' = st.seen
                 /\ all_docs' = st.all_docs
                 /\ run_pc' = IF st.raised THEN "raised" ELSE "retrieving"
    /\ next_query' = next_query + 1
    /\ UNCHANGED << run_group, full_pages, retrieved_docs_with_meta >>
    /\ UNCHANGED besidesRun

\* chunk mode: one sub-query is retrieved and its pairs collected
RetrieveChunks ==
    /\ run_pc = "retrieving"
    /\ ~run_group.full_page
    /\ next_query <= Len(run_group.semantic_queries)
    /\ LET q == run_group.semantic_queries[next_query]
       IN  \E pairs \in RetrieveResults(q.k, q.filter) :
             /\ matched' = matched \o pairs
             /\ retrieved_docs_with_meta' =
                   retrieved_docs_with_meta \o pairs
    /\ next_query' = next_query + 1
    /\ UNCHANGED << run_pc, run_group, full_pages, seen, all_docs >>
    /\ UNCHANGED besidesRun

\* retrieve raises (the embedding request or the store query fails)
RetrieveRaises ==
    /\ run_pc = "retrieving"
    /\ next_query <= Len(run_group.semantic_queries)
    /\ run_pc' = "raised"
    /\ UNCHANGED << run_group, next_query, full_pages, seen,
                    retrieved_docs_with_meta, all_docs, matched >>
    /\ UNCHANGED besidesRun

\* after the last sub-query: the context list is final and handed to
\* generate_answer, which returns the LLM's answer or raises
GenerateAnswer ==
    /\ run_pc = "retrieving"
    /\ next_query > Len(run_group.semantic_queries)
    /\ all_docs' = IF run_group.full_page THEN all_docs
                   ELSE Dedupe(DocsOf(retrieved_docs_with_meta))
    /\ run_pc' \in { "answered", "raised_by_llm" }
    /\ UNCHANGED << run_group, next_query, full_pages, seen,
                    retrieved_docs_with_meta, matched >>
    /\ UNCHANGED besidesRun

RunNext ==
    \/ RetrieveFullPage
    \/ RetrieveChunks
    \/ RetrieveRaises
    \/ GenerateAnswer

RunSpec == RunInit /\ [][RunNext]_<< runVars, besidesRun >>

---------------------------------------------------------------------------
\* the context list has been handed to generate_answer
ContextFinal == run_pc \in { "answered", "raised_by_llm" }

\* index of the first occurrence of doc in docs
FirstIndex(docs, doc) ==
    CHOOSE i \in 1..Len(docs) :
        docs[i] = doc /\ \A j \in 1..(i - 1) : docs[j] # doc

\* C12: in chunk mode (full_page false) the context list handed to
\* generate_answer holds no text twice, holds every text that was retrieved,
\* and lists the texts in the order in which they were first retrieved
\* across the sub-queries of the group.
C12_ExactDedupeFirstSeen ==
    (ContextFinal /\ ~run_group.full_page) =>
        LET docs == DocsOf(matched)
        IN  /\ \A i, j \in 1..Len(all_docs) : i # j => all_docs[i] # all_docs[j]
            /\ { all_docs[i] : i \in 1..Len(all_docs) }
                  = { docs[i] : i \in 1..Len(docs) }
            /\ \A i, j \in 1..Len(all_docs) :
                  i < j => FirstIndex(docs, all_docs[i]) < FirstIndex(docs, all_docs[j])

\* a chunk-mode run of two sub-queries that retrieved the same text more
\* than once, and a later text first
C12_Witness ==
    /\ run_pc = "answered"
    /\ ~run_group.full_page
    /\ Len(run_group.semantic_queries) = 2
    /\ Len(matched) > Len(all_docs)
    /\ Len(all_docs) >= 2
    /\ matched[1][1] # matched[2][1]
    /\ matched[3][1] = matched[1][1]

\* the j-th retrieved pair adds to the context: a "loan" chunk always, any
\* other chunk when no earlier chunk other than a "loan" one had its page
Contributes(j) ==
    \/ matched[j][2].type = "loan"
    \/ ~ \E i \in 1..(j - 1) :
            /\ matched[i][2].type # "loan"
            /\ matched[i][2].page = matched[j][2].page

\* C13: in full-page mode no page number contributes its page text to the
\* context more than once across the sub-queries of the group, while a
\* retrieved chunk of type "loan" is included (as the chunk's own text)
\* every time it is retrieved, whether or not its page was included: the
\* context list is, in retrieval order, the chunk text of each "loan" pair
\* and the manifest's page text for the first other pair of each page.
C13_PageDedupeLoanCarveOut ==
    (run_pc \in {"retrieving", "answered", "raised_by_llm"} /\ run_group.full_page) =>
        LET kept == { j \in 1..Len(matched) : Contributes(j) }
            Rank(j) == Cardinality({ i \in kept : i <= j })
        IN  /\ Len(all_docs) = Cardinality(kept)
            /\ \A j \in kept :
                  all_docs[Rank(j)] =
                     IF matched[j][2].type = "loan" THEN matched[j][1]
                     ELSE PyIndex(full_pages, matched[j][2].page - 1)
            /\ \A j \in 1..Len(matched) :
                  matched[j][2].type # "loan" =>
                     Cardinality({ i \in kept : /\ matched[i][2].type # "loan"
                                                /\ matched[i][2].page =
                                                      matched[j][2].page }) = 1
            /\ seen = { matched[j][2].page :
                          j \in { i \in 1..Len(matched) : matched[i][2].type # "loan" } }

\* a finished full-page run in which both sub-queries retrieved the "loan"
\* chunk and both retrieved one other chunk: the chunk's text is in the
\* context twice, the page's text once
C13_Witness ==
    /\ run_pc = "answered"
    /\ run_group.full_page
    /\ Len(matched) = 4
    /\ matched[1][2].type = "loan"
    /\ matched[3] = matched[1]
    /\ matched[2][2].type # "loan"
    /\ matched[4] = matched[2]
    /\ all_docs = << matched[1][1],
                     PyIndex(full_pages, matched[2][2].page - 1),
                     matched[1][1] >>

---------------------------------------------------------------------------
\* Markdown text.  A string is a sequence of atoms: "a" is a word of
\* WordChars letters, "_" a blank, "|" the pipe that opens or closes a table
\* row, "1" a digit.

\* number of characters of the word "a"
WordChars == 26

RECURSIVE Chars(_)
\* len(s)
Chars(s) ==
    IF s = <<>> THEN 0
    ELSE (IF Head(s) = "a" THEN WordChars ELSE 1) + Chars(Tail(s))

RECURSIVE LStrip(_)
LStrip(s) == IF s # <<>> /\ Head(s) = "_" THEN LStrip(Tail(s)) ELSE s

RECURSIVE RStrip(_)
RStrip(s) ==
    IF s # <<>> /\ s[Len(s)] = "_" THEN RStrip(SubSeq(s, 1, Len(s) - 1)) ELSE s

\* s.strip()
Strip(s) == RStrip(LStrip(s))

\* The tokenizer (tiktoken, a byte-pair encoding).  A token is a piece of
\* text; as in tiktoken's vocabularies a blank is joined to the word that
\* follows it (" a", " aa" are tokens), while "aa" without the blank is not
\* in the vocabulary and takes two tokens.
RECURSIVE Encode(_)
\* enc.encode(text)
Encode(s) ==
    IF s = <<>> THEN <<>>
    ELSE IF Len(s) >= 3 /\ SubSeq(s, 1, 3) = << "_", "a", "a" >>
         THEN << SubSeq(s, 1, 3) >> \o Encode(SubSeq(s, 4, Len(s)))
    ELSE IF Len(s) >= 2 /\ SubSeq(s, 1, 2) = << "_", "a" >>
         THEN << SubSeq(s, 1, 2) >> \o Encode(SubSeq(s, 3, Len(s)))
    ELSE << << Head(s) >> >> \o Encode(Tail(s))

RECURSIVE Decode(_)
\* enc.decode(tokens)
Decode(tokens) ==
    IF tokens = <<>> THEN <<>> ELSE Head(tokens) \o Decode(Tail(tokens))

\* enc.decode(tokens[i:i + max_tokens]).strip(), i counted from 1
Window(tokens, i, budget) ==
    Strip(Decode(SubSeq(tokens, i, Smaller(i + budget - 1, Len(tokens)))))

RECURSIVE Windows_from(_, _, _)
\* for i in range(0, len(tokens), max_tokens)
Windows_from(tokens, i, budget) ==
    IF i > Len(tokens) THEN <<>>
    ELSE << Window(tokens, i, budget) >> \o Windows_from(tokens, i + budget, budget)

\* split_text_by_tokens(text, max_tokens)
SplitTextByTokens(text, budget) ==
    LET tokens == Encode(text)
    IN  IF Len(tokens) <= budget THEN << text >>
        ELSE Windows_from(tokens, 1, budget)

---------------------------------------------------------------------------
\* MarkdownChunker.extract_chunks_from_markdown and split_md_by_page

\* len(text_content.strip()) > 50
TEXT_MIN_CHARS == 50
\* len(table.strip()) > 20
TABLE_MIN_CHARS == 20
\* config.CHUNK_SIZE
CHUNK_SIZE == 2000

\* A part of a document is what the patterns of the chunker make of it: the
\* tables (runs of pipe rows) that table_pattern finds in it, and the text
\* left when they are taken out.  The part reads: text, then tables.
RECURSIVE Concat(_)
Concat(strings) ==
    IF strings = <<>> THEN <<>> ELSE Head(strings) \o Concat(Tail(strings))

Raw(part) == part.text \o Concat(part.tables)

\* the largest number of parts of a document
MaxParts == 3
\* the largest config.MAX_TOKENS
MaxBudget == 3

T_SHORT == << "|", "|" >>
T_ROW == << "|", "a", "|" >>

\* the parts documents are made of: no text, a word, a sentence within every
\* budget above one token, a sentence with a gap; no table, one table, a
\* table below the threshold followed by one above it
Parts ==
    [ text : { <<>>, << "a" >>, << "_", "a", "a" >>,
               << "a", "_", "_", "a", "a" >> },
      tables : { <<>>, << T_ROW >>, << T_SHORT, T_ROW >> } ]

\* A document: with page markers ("{n}----"), parts[1] is what stands before
\* the first marker and each further part what follows one marker; without
\* markers, the parts are what runs of blank lines separate
Documents ==
    { d \in [ marked : BOOLEAN,
              parts : UNION { [1..n -> Parts] : n \in 1..MaxParts } ] :
        /\ d.marked => Len(d.parts) >= 2
        /\ Chars(Concat([ i \in 1..Len(d.parts) |-> Raw(d.parts[i]) ])) <= CHUNK_SIZE }

\* the digits of a marker, which re.split returns between the parts
NumberPart == [ text |-> << "1" >>, tables |-> <<>> ]

RECURSIVE Interleave(_)
Interleave(parts) ==
    IF parts = <<>> THEN <<>>
    ELSE << NumberPart, Head(parts) >> \o Interleave(Tail(parts))

\* the document as one string
Whole(md) ==
    [ text |-> Concat([ i \in 1..Len(md.parts) |-> md.parts[i].text ]),
      tables |-> Concat([ i \in 1..Len(md.parts) |-> md.parts[i].tables ]) ]

\* re.split(page_pattern, md_content)
MarkerSplit(md) ==
    IF md.marked THEN << Head(md.parts) >> \o Interleave(Tail(md.parts))
    ELSE << Whole(md) >>

\* [md_content[i:i+chunk_size] for i in range(0, len(md_content), chunk_size)]
\* of a document of at most CHUNK_SIZE characters
FixedSizePages(md) ==
    IF Chars(Raw(Whole(md))) = 0 THEN <<>> ELSE << Whole(md) >>

\* the pages the chunker goes through: by markers, else by blank lines,
\* else by size
PagesOf(md) ==
    IF Len(MarkerSplit(md)) > 1 THEN MarkerSplit(md)
    ELSE IF Len(md.parts) > 1 THEN md.parts
    ELSE FixedSizePages(md)

\* (variant: the page of the marker before the part)
PageNumber_before(page_idx) == (page_idx - 1) \div 2

\* (page_idx + 1) // 2, page_idx counted from 0
PageNumber(page_idx) == (page_idx + 1) \div 2

\* (variant: ids counted from one)
ChunkId_one_based(emitted) == Len(emitted) + 1

\* len(chunks)
ChunkId(emitted) == Len(emitted)

RECURSIVE EmitText(_, _, _)
\* for sub_text in text_chunks: chunks.append({...})
EmitText(emitted, page_idx, text_chunks) ==
    IF text_chunks = <<>> THEN emitted
    ELSE EmitText(Append(emitted,
                         [ chunk_id |-> ChunkId(emitted),
                           page |-> PageNumber(page_idx),
                           type |-> "text",
                           content |-> Head(text_chunks),
                           length |-> Chars(Head(text_chunks)) ]),
                  page_idx, Tail(text_chunks))

RECURSIVE EmitTable(_, _, _, _)
\* for sub_table in table_chunks: chunks.append({...})
EmitTable(emitted, page_idx, table_idx, table_chunks) ==
    IF table_chunks = <<>> THEN emitted
    ELSE EmitTable(Append(emitted,
                          [ chunk_id |-> ChunkId(emitted),
                            page |-> PageNumber(page_idx),
                            type |-> "table",
                            table_index |-> table_idx + 1,
                            content |-> Head(table_chunks),
                            length |-> Chars(Head(table_chunks)) ]),
                   page_idx, table_idx, Tail(table_chunks))

RECURSIVE EmitTables(_, _, _, _, _)
\* for table_idx, table in enumerate(tables)
EmitTables(emitted, page_idx, table_idx, tables, budget) ==
    IF tables = <<>> THEN emitted
    ELSE EmitTables(IF Chars(Strip(Head(tables))) > TABLE_MIN_CHARS
                    THEN EmitTable(emitted, page_idx, table_idx,
                                   SplitTextByTokens(Head(tables), budget))
                    ELSE emitted,
                    page_idx, table_idx + 1, Tail(tables), budget)

\* the body of the loop over the pages, for one page
EmitPage(emitted, page_idx, page_content, budget) ==
    IF Strip(Raw(page_content)) = <<>> THEN emitted
    ELSE LET text_content == Strip(page_content.text)
         IN  EmitTables(IF text_content # <<>>
                           /\ Chars(Strip(text_content)) > TEXT_MIN_CHARS
                        THEN EmitText(emitted, page_idx,
                                      SplitTextByTokens(text_content, budget))
                        ELSE emitted,
                        page_idx, 0, page_content.tables, budget)

RECURSIVE EmitPages(_, _, _, _)
\* for page_idx, page_content in enumerate(pages)
EmitPages(emitted, page_idx, pages, budget) ==
    IF pages = <<>> THEN emitted
    ELSE EmitPages(EmitPage(emitted, page_idx, Head(pages), budget),
                   page_idx + 1, Tail(pages), budget)

\* extract_chunks_from_markdown(md_content)
ExtractChunks(md, budget) == EmitPages(<<>>, 0, PagesOf(md), budget)

\* split_md_by_page: the contents that follow the markers, stripped
SplitMdByPage(md) ==
    LET pages == MarkerSplit(md)
    IN  [ j \in 1..((Len(pages) - 1) \div 2) |-> Strip(Raw(pages[2 * j + 1])) ]

besidesChunker == << vars, runVars, retrieveVars, splitVars, storeVars,
    laterVars >>

BesidesChunkerIdle ==
    EngineInit /\ RunIdle /\ RetrieveIdle /\ SplitIdle /\ StoreIdle /\ LaterIdle

\* a document is about to be ingested; config.MAX_TOKENS, which
\* src/resources/config/config.py does not define, is any budget
ChunkerInit ==
    /\ chunker_pc = "chunking"
    /\ md_content \in Documents
    /\ max_tokens \in 1..MaxBudget
    /\ chunks = <<>>
    /\ page_contents = <<>>
    /\ BesidesChunkerIdle

\* chunks = self.extract_chunks_from_markdown(md_content)
ExtractChunksFromMarkdown ==
    /\ chunker_pc = "chunking"
    /\ chunks' = ExtractChunks(md_content, max_tokens)
    /\ chunker_pc' = "splitting"
    /\ UNCHANGED << md_content, max_tokens, page_contents >>
    /\ UNCHANGED besidesChunker

\* split_page_file = split_md_by_page(md_file[0])
WritePageManifest ==
    /\ chunker_pc = "splitting"
    /\ page_contents' = SplitMdByPage(md_content)
    /\ chunker_pc' = "done"
    /\ UNCHANGED << md_content, max_tokens, chunks >>
    /\ UNCHANGED besidesChunker

ChunkerNext ==
    \/ ExtractChunksFromMarkdown
    \/ WritePageManifest

ChunkerSpec == ChunkerInit /\ [][ChunkerNext]_<< chunkerVars, besidesChunker >>

---------------------------------------------------------------------------
\* the chunks have been extracted
Extracted == chunker_pc \in { "splitting", "done" }

\* the contents of the chunks that the page at page_idx gives
ContentsOfPage(page_idx) ==
    LET of_page == EmitPage(<<>>, page_idx, PagesOf(md_content)[page_idx + 1],
                            max_tokens)
    IN  { of_page[i].content : i \in 1..Len(of_page) }

\* C14: for every chunk the chunker emits, the lookup full_pages[page - 1]
\* of the full-page mode exists in the manifest that split_md_by_page wrote
\* for the same document, and is the text of the page the chunk was taken
\* from - also for text before the first marker and for documents without
\* markers.
C14_ManifestAgreement ==
    chunker_pc = "done" =>
        \A i \in 1..Len(chunks) :
            /\ PyHasIndex(page_contents, chunks[i].page - 1)
            /\ \E page_idx \in 0..(Len(PagesOf(md_content)) - 1) :
                  /\ PageNumber(page_idx) = chunks[i].page
                  /\ chunks[i].content \in ContentsOfPage(page_idx)
                  /\ PyIndex(page_contents, chunks[i].page - 1)
                        = Strip(Raw(PagesOf(md_content)[page_idx + 1]))

\* C16: the i-th chunk emitted has chunk_id i, counted from 0, over the
\* whole document: the ids are unique and strictly increasing and the count
\* goes on across pages and from text chunks to table chunks.
C16_ChunkIdsCountEmission ==
    Extracted => \A i \in 1..Len(chunks) : chunks[i].chunk_id = i - 1

\* chunks of three pages, the text of a page split in several chunks and
\* followed by a table chunk of the same page
C16_Witness ==
    /\ chunker_pc = "done"
    /\ \E i, j, k \in 1..Len(chunks) :
          /\ chunks[i].page < chunks[j].page
          /\ chunks[j].page < chunks[k].page
    /\ \E i \in 1..(Len(chunks) - 2) :
          /\ chunks[i].page = chunks[i + 2].page
          /\ chunks[i].type = "text"
          /\ chunks[i + 1].type = "text"
          /\ chunks[i + 2].type = "table"
          /\ chunks[i + 2].chunk_id = i + 1

\* C17: for a document with at least one page marker the pages of the
\* chunks do not decrease in the order of chunk_id, and every page is an
\* integer >= 0.
C17_PagesNonDecreasing ==
    (Extracted /\ md_content.marked) =>
        /\ \A i \in 1..Len(chunks) : chunks[i].page \in Nat
        /\ \A i, j \in 1..Len(chunks) :
              chunks[i].chunk_id < chunks[j].chunk_id =>
                 chunks[i].page <= chunks[j].page

\* a document with markers: chunks of the text before the first marker
\* (page 0) and of the parts after the first and the second marker
C17_Witness ==
    /\ chunker_pc = "done"
    /\ md_content.marked
    /\ Len(md_content.parts) = 3
    /\ { chunks[i].page : i \in 1..Len(chunks) } = { 0, 1, 2 }

\* C18: every chunk emitted - produced by token splitting or not - has
\* length = len(content), content that is not empty, the type text or table,
\* and content longer than the threshold of its type (50 characters for
\* text, 20 for a table).
C18_ChunksAboveThreshold ==
    Extracted =>
        \A i \in 1..Len(chunks) :
            /\ chunks[i].length = Chars(chunks[i].content)
            /\ chunks[i].content # <<>>
            /\ chunks[i].type \in { "text", "table" }
            /\ chunks[i].type = "text" => Chars(chunks[i].content) > TEXT_MIN_CHARS
            /\ chunks[i].type = "table" => Chars(chunks[i].content) > TABLE_MIN_CHARS

---------------------------------------------------------------------------
\* RAGPipelineCosine.retrieve and ReRanker.rerank_with_metadata

\* the scores of the cross-encoder are 0..MaxScore
MaxScore == 2

\* fetch_count = n_results * 2 if (rerank and self.use_reranker) else n_results
FetchCount(k, reranking) == IF reranking THEN k * 2 ELSE k

\* what collection.query(n_results=fetch_count, where=...) can return: the
\* documents and, in the same order, the metadatas of the best matches
QueryResults(fetch_count, filter) ==
    { [ documents |-> [ j \in 1..Len(r) |-> StoredChunk(r[j]).document ],
        metadatas |-> [ j \in 1..Len(r) |-> StoredChunk(r[j]).metadata ] ] :
        r \in Rankings(Matching(filter),
                       Smaller(fetch_count, Cardinality(Matching(filter)))) }

\* list(zip(docs, metas))
Zip(docs, metas) ==
    [ i \in 1..Smaller(Len(docs), Len(metas)) |-> << docs[i], metas[i] >> ]

\* list(zip(documents, metadatas, scores))
Zip3(pairs, predicted) ==
    [ i \in 1..Smaller(Len(pairs), Len(predicted)) |->
        << pairs[i][1], pairs[i][2], predicted[i] >> ]

\* (variant: reverse=False)
ScoreBefore_ascending(a, b) == a <= b

\* key=lambda x: x[2], reverse=True: a stays before b
ScoreBefore(a, b) == a >= b

RECURSIVE InsertByScore(_, _)
InsertByScore(sorted, x) ==
    IF sorted = <<>> THEN << x >>
    ELSE IF ScoreBefore(Head(sorted)[3], x[3])
         THEN << Head(sorted) >> \o InsertByScore(Tail(sorted), x)
         ELSE << x >> \o sorted

RECURSIVE SortByScore(_, _)
\* combined.sort(...): a stable sort
SortByScore(combined, sorted) ==
    IF combined = <<>> THEN sorted
    ELSE SortByScore(Tail(combined), InsertByScore(sorted, Head(combined)))

\* rerank_with_metadata(query, docs_with_meta, top_k)
RerankWithMetadata(pairs, predicted, top_k) ==
    IF pairs = <<>> THEN <<>>
    ELSE LET combined == SortByScore(Zip3(pairs, predicted), <<>>)
         IN  SubSeq(combined, 1, Smaller(top_k, Len(combined)))

\* [(doc, meta) for doc, meta, _ in reranked]
DropScores(reranked) ==
    [ i \in 1..Len(reranked) |-> << reranked[i][1], reranked[i][2] >> ]

besidesRetrieve == << vars, runVars, chunkerVars, splitVars, storeVars,
    laterVars >>

BesidesRetrieveIdle ==
    EngineInit /\ RunIdle /\ ChunkerIdle /\ SplitIdle /\ StoreIdle /\ LaterIdle

\* retrieve(query, n_results, filter) is called (rerank and rerank_top_k
\* are left at their defaults by every caller)
RetrieveInit ==
    /\ retrieve_pc = "called"
    /\ n_results \in 1..MaxK
    /\ query_filter \in Filters
    /\ use_reranker \in BOOLEAN
    /\ query_results = [documents |-> <<>>, metadatas |-> <<>>]
    /\ scores = <<>>
    /\ docs_with_meta = <<>>
    /\ BesidesRetrieveIdle

\* get_embedding(query) raises
EmbeddingRaises ==
    /\ retrieve_pc = "called"
    /\ retrieve_pc' = "raised"
    /\ UNCHANGED << n_results, query_filter, use_reranker, query_results,
                    scores, docs_with_meta >>
    /\ UNCHANGED besidesRetrieve

\* results = self.collection.query(...)
QueryStore ==
    /\ retrieve_pc = "called"
    /\ query_results' \in QueryResults(FetchCount(n_results, use_reranker),
                                       query_filter)
    /\ retrieve_pc' = "queried"
    /\ UNCHANGED << n_results, query_filter, use_reranker, scores,
                    docs_with_meta >>
    /\ UNCHANGED besidesRetrieve

\* the candidates are scored, sorted and cut to top_k = n_results
Rerank ==
    /\ retrieve_pc = "queried"
    /\ use_reranker
    /\ Len(query_results.documents) > 1
    /\ scores' \in [ 1..Len(query_results.documents) -> 0..MaxScore ]
    /\ docs_with_meta' =
          DropScores(RerankWithMetadata(
              Zip(query_results.documents, query_results.metadatas),
              scores', n_results))
    /\ retrieve_pc' = "returned"
    /\ UNCHANGED << n_results, query_filter, use_reranker, query_results >>
    /\ UNCHANGED besidesRetrieve

\* no re-ranking: the pairs are returned in the store's order
ReturnRanked ==
    /\ retrieve_pc = "queried"
    /\ ~(use_reranker /\ Len(query_results.documents) > 1)
    /\ docs_with_meta' = Zip(query_results.documents, query_results.metadatas)
    /\ retrieve_pc' = "returned"
    /\ UNCHANGED << n_results, query_filter, use_reranker, query_results,
                    scores >>
    /\ UNCHANGED besidesRetrieve

RetrieveNext ==
    \/ EmbeddingRaises
    \/ QueryStore
    \/ Rerank
    \/ ReturnRanked

RetrieveSpec ==
    RetrieveInit /\ [][RetrieveNext]_<< retrieveVars, besidesRetrieve >>

---------------------------------------------------------------------------
\* the i-th candidate as the store returned it
Candidate(i) == << query_results.documents[i], query_results.metadatas[i] >>

---------------------------------------------------------------------------
\* MarkdownChunker.split_text_by_tokens, called on one block

\* a block is a text of up to MaxAtoms words, blanks and pipes
MaxAtoms == 4

RECURSIVE TextsUpTo(_)
TextsUpTo(n) ==
    IF n = 0 THEN { <<>> }
    ELSE TextsUpTo(n - 1) \cup
         { Append(s, c) : s \in { t \in TextsUpTo(n - 1) : Len(t) = n - 1 },
                          c \in { "a", "_", "|" } }

Blocks == TextsUpTo(MaxAtoms)

besidesSplit == << vars, runVars, retrieveVars, chunkerVars, storeVars,
    laterVars >>

BesidesSplitIdle ==
    EngineInit /\ RunIdle /\ RetrieveIdle /\ ChunkerIdle /\ StoreIdle /\ LaterIdle

\* split_text_by_tokens(text, max_tokens) is called
SplitInit ==
    /\ split_pc = "called"
    /\ split_text \in Blocks
    /\ split_max_tokens \in 1..MaxBudget
    /\ sub_texts = <<>>
    /\ BesidesSplitIdle

\* the text is within the budget: return [text]
ReturnWhole ==
    /\ split_pc = "called"
    /\ Len(Encode(split_text)) <= split_max_tokens
    /\ sub_texts' = SplitTextByTokens(split_text, split_max_tokens)
    /\ split_pc' = "returned"
    /\ UNCHANGED << split_text, split_max_tokens >>
    /\ UNCHANGED besidesSplit

\* the text exceeds the budget: return the stripped windows
ReturnWindows ==
    /\ split_pc = "called"
    /\ Len(Encode(split_text)) > split_max_tokens
    /\ sub_texts' = SplitTextByTokens(split_text, split_max_tokens)
    /\ split_pc' = "returned"
    /\ UNCHANGED << split_text, split_max_tokens >>
    /\ UNCHANGED besidesSplit

SplitNext ==
    \/ ReturnWhole
    \/ ReturnWindows

SplitSpec == SplitInit /\ [][SplitNext]_<< splitVars, besidesSplit >>

---------------------------------------------------------------------------
RECURSIVE TokensOf(_)
\* the token sequences of the texts, one after the other
TokensOf(texts) ==
    IF texts = <<>> THEN <<>>
    ELSE Encode(Head(texts)) \o TokensOf(Tail(texts))

\* C19: every text returned has at most max_tokens tokens; the texts
\* returned for a block above the budget have token sequences which, one
\* after the other, are the block's token sequence; a block within the
\* budget is returned unchanged as the only text.
C19_TokenBudget ==
    split_pc = "returned" =>
        LET tokens == Encode(split_text)
        IN  /\ \A i \in DOMAIN sub_texts :
                  Len(Encode(sub_texts[i])) <= split_max_tokens
            /\ Len(tokens) > split_max_tokens => TokensOf(sub_texts) = tokens
            /\ Len(tokens) <= split_max_tokens => sub_texts = << split_text >>

---------------------------------------------------------------------------
\* MarkdownChunker.store_in_chromadb over the ingestions into one collection
\* (get_or_create_collection gives the same collection to every chunker of
\* the same file name).  Chroma is a library outside this repository: what
\* delete(where={}) and add(ids already present) do differs between its
\* versions, so each is a choice among the outcomes a build can give.

\* the largest number of ingestions and of chunks of one ingestion
MaxIngestions == 3
MaxChunks == 2

\* the versions of the document that are ingested
Versions == { "v1", "v2" }

\* the chunks extract_chunks_from_markdown gives for a version of n chunks
ChunksOf(version, n) ==
    [ i \in 1..n |-> [ chunk_id |-> i - 1,
                       content  |-> << version, i >>,
                       page     |-> i,
                       type     |-> "text" ] ]

ChunkLists == { ChunksOf(v, n) : v \in Versions, n \in 0..MaxChunks }

\* ids = [f"chunk_{c['chunk_id']}" for c in chunks]
IdOf(c) == << "chunk_", c.chunk_id >>

\* the document and metadata stored for a chunk
EntryOf(c) ==
    [ document |-> c.content,
      metadata |-> [ page |-> c.page, type |-> c.type ] ]

Ids(chunk_list) == { IdOf(chunk_list[i]) : i \in DOMAIN chunk_list }

\* collection.add(...): an id already present keeps its entry
AddTo(entries, chunk_list) ==
    [ id \in DOMAIN entries \cup Ids(chunk_list) |->
        IF id \in DOMAIN entries
        THEN entries[id]
        ELSE EntryOf(chunk_list[CHOOSE i \in DOMAIN chunk_list :
                                    IdOf(chunk_list[i]) = id]) ]

besidesStore == << vars, runVars, retrieveVars, chunkerVars, splitVars,
    laterVars >>

BesidesStoreIdle ==
    EngineInit /\ RunIdle /\ RetrieveIdle /\ ChunkerIdle /\ SplitIdle /\ LaterIdle

\* a collection just created
StoreInit == StoreIdle /\ BesidesStoreIdle

\* store_in_chromadb(chunks, embeddings) is called
StartIngestion ==
    /\ store_pc \in { "idle", "stored", "failed" }
    /\ ingestions < MaxIngestions
    /\ ingested' \in ChunkLists
    /\ ingestions' = ingestions + 1
    /\ store_pc' = "deleting"
    /\ UNCHANGED collection
    /\ UNCHANGED besidesStore

\* self.collection.delete(where={}) removes every entry
DeleteAll ==
    /\ store_pc = "deleting"
    /\ collection' = << >>
    /\ store_pc' = "adding"
    /\ UNCHANGED << ingested, ingestions >>
    /\ UNCHANGED besidesStore

\* self.collection.delete(where={}) raises (an empty filter is rejected);
\* except: pass
DeleteRaises ==
    /\ store_pc = "deleting"
    /\ store_pc' = "adding"
    /\ UNCHANGED << collection, ingested, ingestions >>
    /\ UNCHANGED besidesStore

\* self.collection.add(...) returns
Add ==
    /\ store_pc = "adding"
    /\ ingested # <<>>
    /\ collection' = AddTo(collection, ingested)
    /\ store_pc' = "stored"
    /\ UNCHANGED << ingested, ingestions >>
    /\ UNCHANGED besidesStore

\* self.collection.add(...) raises (no ids, or ids already present)
AddRaises ==
    /\ store_pc = "adding"
    /\ \/ ingested = <<>>
       \/ Ids(ingested) \cap DOMAIN collection # {}
    /\ store_pc' = "failed"
    /\ UNCHANGED << collection, ingested, ingestions >>
    /\ UNCHANGED besidesStore

StoreNext ==
    \/ StartIngestion
    \/ DeleteAll
    \/ DeleteRaises
    \/ Add
    \/ AddRaises

StoreSpec == StoreInit /\ [][StoreNext]_<< storeVars, besidesStore >>

---------------------------------------------------------------------------
\* C20: when an ingestion has completed, the collection holds exactly the
\* chunks of that ingestion: as many entries as chunks, each chunk under its
\* id with its document and metadata, and so no entry of an earlier
\* ingestion.
C20_IdempotentReingestion ==
    store_pc = "stored" =>
        /\ Cardinality(DOMAIN collection) = Len(ingested)
        /\ DOMAIN collection = Ids(ingested)
        /\ \A i \in DOMAIN ingested :
              collection[IdOf(ingested[i])] = EntryOf(ingested[i])

---------------------------------------------------------------------------
\* MarkdownChunker.create_embeddings_and_index_async and get_embedding_async.
\* config.BATCH_SIZE is not defined in src/resources/config/config.py; the
\* batch size is any value from 1 to MaxBatch.

MaxBatch == 2

\* [0.0] * 768
ZERO_VECTOR == << "zero", 768 >>

\* the vector the embedding endpoint gives for the content of a chunk
Embedding(c) == << "embedding", c.content >>

\* the chunks of chunks[i:i + config.BATCH_SIZE], i counted from 1
Batch(i, size, chunk_list) ==
    { j \in DOMAIN chunk_list : i <= j /\ j < i + size }

\* the positions of a batch in the order of the chunks
BatchOrder(i, size, chunk_list) ==
    [ j \in 1..Cardinality(Batch(i, size, chunk_list)) |-> i + j - 1 ]

\* (variant: results in the order in which the requests complete)
Gathered_as_completed(order, given, completed) ==
    [ j \in DOMAIN order |-> given[completed[j]] ]

\* await asyncio.gather(*...): the results in the order of the awaitables
Gathered(order, given, completed) ==
    [ j \in DOMAIN order |-> given[order[j]] ]

besidesIndex ==
    << vars, runVars, retrieveVars, chunkerVars, splitVars, extractVars, chatVars, requestVars, passVars, hitlVars, reactVars, mcpVars,
       agentVars >>

BesidesIndexIdle ==
    EngineInit /\ RunIdle /\ RetrieveIdle /\ ChunkerIdle /\ SplitIdle
    /\ ExtractIdle
    /\ ChatIdle
    /\ RequestIdle
    /\ PassIdle
    /\ HitlIdle
    /\ ReactIdle
    /\ McpIdle
    /\ AgentIdle

\* a chunker on a collection just created
IndexInit ==
    /\ index_pc = "idle"
    /\ batch_size \in 1..MaxBatch
    /\ batch_start = 1
    /\ in_flight = {}
    /\ responses = << >>
    /\ finished = <<>>
    /\ all_embeddings = <<>>
    /\ StoreIdle
    /\ BesidesIndexIdle

\* create_embeddings_and_index_async(md_file_path) is called: the chunks
\* are extracted
StartIndexing ==
    /\ index_pc \in { "idle", "done", "raised" }
    /\ ingestions < MaxIngestions
    /\ ingested' \in ChunkLists
    /\ ingestions' = ingestions + 1
    /\ all_embeddings' = <<>>
    /\ batch_start' = 1
    /\ in_flight' = {}
    /\ responses' = << >>
    /\ finished' = <<>>
    /\ index_pc' = "embedding"
    /\ UNCHANGED << batch_size, store_pc, collection >>
    /\ UNCHANGED besidesIndex

\* the loop takes the next batch: gather starts one request per chunk
StartBatch ==
    /\ index_pc = "embedding"
    /\ batch_start <= Len(ingested)
    /\ in_flight' = Batch(batch_start, batch_size, ingested)
    /\ responses' = << >>
    /\ finished' = <<>>
    /\ index_pc' = "gathering"
    /\ UNCHANGED << batch_size, batch_start, all_embeddings, storeVars >>
    /\ UNCHANGED besidesIndex

\* get_embedding_async: the request of one chunk returns its embedding
Respond ==
    /\ index_pc = "gathering"
    /\ \E i \in in_flight :
          /\ in_flight' = in_flight \ { i }
          /\ responses' = responses @@ (i :> Embedding(ingested[i]))
          /\ finished' = Append(finished, i)
    /\ UNCHANGED << index_pc, batch_size, batch_start, all_embeddings,
                    storeVars >>
    /\ UNCHANGED besidesIndex

\* get_embedding_async: the request of one chunk fails; except Exception
RequestFails ==
    /\ index_pc = "gathering"
    /\ \E i \in in_flight :
          /\ in_flight' = in_flight \ { i }
          /\ responses' = responses @@ (i :> ZERO_VECTOR)
          /\ finished' = Append(finished, i)
    /\ UNCHANGED << index_pc, batch_size, batch_start, all_embeddings,
                    storeVars >>
    /\ UNCHANGED besidesIndex

\* gather returns when every request of the batch has finished;
\* all_embeddings.extend(batch_embeddings)
Gather ==
    /\ index_pc = "gathering"
    /\ in_flight = {}
    /\ all_embeddings' = all_embeddings \o
          Gathered(BatchOrder(batch_start, batch_size, ingested),
                   responses, finished)
    /\ batch_start' = batch_start + batch_size
    /\ index_pc' = "embedding"
    /\ UNCHANGED << batch_size, in_flight, responses, finished, storeVars >>
    /\ UNCHANGED besidesIndex

\* the loop is over: save_embeddings, then store_in_chromadb is entered
EnterStore ==
    /\ index_pc = "embedding"
    /\ batch_start > Len(ingested)
    /\ store_pc' = "deleting"
    /\ index_pc' = "storing"
    /\ UNCHANGED << batch_size, batch_start, in_flight, responses, finished,
                    all_embeddings, collection, ingested, ingestions >>
    /\ UNCHANGED besidesIndex

\* store_in_chromadb returned: return chunks, embeddings
IndexReturns ==
    /\ index_pc = "storing"
    /\ store_pc = "stored"
    /\ index_pc' = "done"
    /\ UNCHANGED << batch_size, batch_start, in_flight, responses, finished,
                    all_embeddings, storeVars >>
    /\ UNCHANGED besidesIndex

\* store_in_chromadb raised: the call raises
IndexRaises ==
    /\ index_pc = "storing"
    /\ store_pc = "failed"
    /\ index_pc' = "raised"
    /\ UNCHANGED << batch_size, batch_start, in_flight, responses, finished,
                    all_embeddings, storeVars >>
    /\ UNCHANGED besidesIndex

IndexNext ==
    \/ StartIndexing
    \/ StartBatch
    \/ Respond
    \/ RequestFails
    \/ Gather
    \/ EnterStore
    \/ DeleteAll
    \/ DeleteRaises
    \/ Add
    \/ AddRaises
    \/ IndexReturns
    \/ IndexRaises

IndexSpec ==
    IndexInit /\ [][IndexNext]_<< indexVars, storeVars, besidesIndex >>

---------------------------------------------------------------------------
\* C21: once the loop is over there is exactly one embedding per chunk and
\* the i-th embedding is that of the i-th chunk (or the fallback), in
\* whatever order the requests finished.  At any time at most batch_size
\* requests are in flight, all of them of the current batch, and the
\* embeddings gathered so far are those of every chunk before it: a batch
\* is started only when every request of the one before has finished.
C21_OneEmbeddingPerChunk ==
    /\ Cardinality(in_flight) <= batch_size
    /\ in_flight \subseteq Batch(batch_start, batch_size, ingested)
    /\ index_pc \in { "embedding", "gathering" } =>
          Len(all_embeddings) = Smaller(batch_start - 1, Len(ingested))
    /\ index_pc \in { "storing", "done", "raised" } =>
          Len(all_embeddings) = Len(ingested)
    /\ \A i \in DOMAIN all_embeddings :
          all_embeddings[i] \in { Embedding(ingested[i]), ZERO_VECTOR }

\* a batch of several chunks whose requests finished in another order than
\* the chunks', all of them with an embedding
C21_Witness ==
    /\ index_pc = "done"
    /\ Len(ingested) = MaxChunks
    /\ batch_size > 1
    /\ Len(finished) > 1
    /\ finished[1] > finished[2]
    /\ \A i \in DOMAIN ingested : all_embeddings[i] = Embedding(ingested[i])

\* the chunks whose embedding call failed
FailedCalls == { i \in DOMAIN all_embeddings : all_embeddings[i] = ZERO_VECTOR }

\* C22: when embedding calls of an indexing have failed (some or all), each
\* of them gave the zero vector and the others their embedding, the call
\* does not raise, and when it has returned the collection holds exactly
\* one entry per chunk of the indexing.
C22_ZeroVectorFallback ==
    (index_pc \in { "storing", "done", "raised" } /\ FailedCalls # {}) =>
        /\ \A i \in DOMAIN ingested : i \notin FailedCalls =>
              all_embeddings[i] = Embedding(ingested[i])
        /\ index_pc # "raised"
        /\ index_pc = "done" =>
              /\ DOMAIN collection = Ids(ingested)
              /\ Cardinality(DOMAIN collection) = Len(ingested)

---------------------------------------------------------------------------
\* C23: a call of the Embedding Client never propagates an error to its
\* caller: retrieve does not end with the error of get_embedding (for the
\* calls made when indexing see RequestFails).
C23_EmbeddingNeverPropagates == retrieve_pc # "raised"

---------------------------------------------------------------------------
\* extractor.extract_pdf: the loop over the attempts, from last_error = None
\* on (the pdf has been read and encoded)

\* the largest retries parameter (the default is 3)
MaxRetries == 4

\* (variant: one attempt more than retries)
InRange_inclusive(n, limit) == n <= limit + 1

\* for attempt in range(1, retries + 1)
InRange(n, limit) == n <= limit

\* wait = 5 * attempt
Backoff(n) == 5 * n

\* if attempt < retries: time.sleep(wait)
Slept(n, limit, slept) ==
    IF n < limit THEN Append(slept, Backoff(n)) ELSE slept

besidesExtract ==
    << vars, runVars, retrieveVars, chunkerVars, splitVars, storeVars, indexVars, chatVars, requestVars, passVars, hitlVars, reactVars, mcpVars,
       agentVars >>

BesidesExtractIdle ==
    EngineInit /\ RunIdle /\ RetrieveIdle /\ ChunkerIdle /\ SplitIdle
    /\ StoreIdle
    /\ IndexIdle
    /\ ChatIdle
    /\ RequestIdle
    /\ PassIdle
    /\ HitlIdle
    /\ ReactIdle
    /\ McpIdle
    /\ AgentIdle

\* extract_pdf(pdf_path, retries) has built its request
ExtractInit ==
    /\ extract_pc = "loop"
    /\ retries \in 0..MaxRetries
    /\ attempt = 1
    /\ outcomes = <<>>
    /\ waits = <<>>
    /\ last_error = "None"
    /\ BesidesExtractIdle

\* the request succeeds: the markdown is saved, return output_path
PostSucceeds ==
    /\ extract_pc = "loop"
    /\ InRange(attempt, retries)
    /\ outcomes' = Append(outcomes, "ok")
    /\ extract_pc' = "returned"
    /\ UNCHANGED << retries, attempt, waits, last_error >>
    /\ UNCHANGED besidesExtract

\* except requests.exceptions.Timeout, then the backoff
PostTimesOut ==
    /\ extract_pc = "loop"
    /\ InRange(attempt, retries)
    /\ outcomes' = Append(outcomes, "Timeout")
    /\ last_error' = "Timeout"
    /\ waits' = Slept(attempt, retries, waits)
    /\ attempt' = attempt + 1
    /\ UNCHANGED << extract_pc, retries >>
    /\ UNCHANGED besidesExtract

\* except requests.exceptions.RequestException, then the backoff
PostFails ==
    /\ extract_pc = "loop"
    /\ InRange(attempt, retries)
    /\ outcomes' = Append(outcomes, "RequestException")
    /\ last_error' = "RequestException"
    /\ waits' = Slept(attempt, retries, waits)
    /\ attempt' = attempt + 1
    /\ UNCHANGED << extract_pc, retries >>
    /\ UNCHANGED besidesExtract

\* the loop is over: raise RuntimeError("All ... attempts failed ...")
RaiseAllFailed ==
    /\ extract_pc = "loop"
    /\ ~InRange(attempt, retries)
    /\ extract_pc' = "raised"
    /\ UNCHANGED << retries, attempt, outcomes, waits, last_error >>
    /\ UNCHANGED besidesExtract

ExtractNext ==
    \/ PostSucceeds
    \/ PostTimesOut
    \/ PostFails
    \/ RaiseAllFailed

ExtractSpec ==
    ExtractInit /\ [][ExtractNext]_<< extractVars, besidesExtract >>

---------------------------------------------------------------------------
\* the attempts made so far that failed
FailedAttempts == { k \in DOMAIN outcomes : outcomes[k] # "ok" }

C25_ExponentialBackoff ==
    /\ \A k \in DOMAIN waits : waits[k] = 5 * (2 ^ (k - 1))
    /\ Len(waits) = Cardinality({ k \in FailedAttempts : k < retries })

---------------------------------------------------------------------------
\* LocalLLMAdapter.chat and RAGPipelineCosine.generate_answer

\* the largest number of context documents of a call
MaxContext == 2

\* generate_answer(query, context_docs, fin_data): the calls explored
Calls ==
    [ query : { "BMO-1", "BMO-2" },
      context_docs : UNION { [ 1..n -> { "doc-1", "doc-2" } ] : n \in 0..MaxContext },
      fin_data : { "", "financial data" } ]

\* messages = [system prompt, user prompt with context, fin_data and query]
Messages(call) ==
    << [ role |-> "system", content |-> << "SYSTEM_PROMPT" >> ],
       [ role |-> "user",
         content |-> << "Context:" >> \o call.context_docs \o
                     << call.fin_data, call.query, "ADDITIONAL_INSTRUCTIONS" >> ] >>

\* the bodies of a response with a success status: an object with choices,
\* one with message.content, one with output, text that is not JSON, and
\* an empty body
Bodies == { "choices", "message", "output", "not JSON", "empty" }

\* the text the LLM gives for the messages
TextFor(msgs) == Str(<< "answer to", msgs[2].content >>)

\* the body cannot be read: safe_json_parse takes splitlines()[0] of ""
Unreadable(body) == body = "empty"

\* what chat returns for the data of a response
Content(body, msgs) ==
    IF body \in { "choices", "message", "output" } THEN TextFor(msgs)
    ELSE Str(<< "{}" >>)

\* (variant: None when both requests failed)
SecondAttemptFailed_none == None

\* except requests.exceptions.RequestException as e2: return ""
SecondAttemptFailed == Str(<<>>)

besidesChat ==
    << vars, runVars, retrieveVars, chunkerVars, splitVars, storeVars, indexVars, extractVars, requestVars, passVars, hitlVars, reactVars, mcpVars,
       agentVars >>

BesidesChatIdle ==
    EngineInit /\ RunIdle /\ RetrieveIdle /\ ChunkerIdle /\ SplitIdle
    /\ StoreIdle
    /\ IndexIdle
    /\ ExtractIdle
    /\ RequestIdle
    /\ PassIdle
    /\ HitlIdle
    /\ ReactIdle
    /\ McpIdle
    /\ AgentIdle

\* generate_answer builds the messages and calls self.llm.chat
ChatInit ==
    /\ chat_pc = "first"
    /\ messages \in { Messages(call) : call \in Calls }
    /\ posts = <<>>
    /\ chat_result = None
    /\ generated = None
    /\ BesidesChatIdle

\* the first request succeeds
FirstSucceeds ==
    /\ chat_pc = "first"
    /\ posts' = Append(posts, "ok")
    /\ \E body \in Bodies :
          IF Unreadable(body)
          THEN chat_pc' = "raised" /\ UNCHANGED chat_result
          ELSE chat_pc' = "returned" /\ chat_result' = Content(body, messages)
    /\ UNCHANGED << messages, generated >>
    /\ UNCHANGED besidesChat

\* the first request fails: except requests.exceptions.RequestException
FirstFails ==
    /\ chat_pc = "first"
    /\ posts' = Append(posts, "RequestException")
    /\ chat_pc' = "second"
    /\ UNCHANGED << messages, chat_result, generated >>
    /\ UNCHANGED besidesChat

\* the second request succeeds
SecondSucceeds ==
    /\ chat_pc = "second"
    /\ posts' = Append(posts, "ok")
    /\ \E body \in Bodies :
          IF Unreadable(body)
          THEN chat_pc' = "raised" /\ UNCHANGED chat_result
          ELSE chat_pc' = "returned" /\ chat_result' = Content(body, messages)
    /\ UNCHANGED << messages, generated >>
    /\ UNCHANGED besidesChat

\* the second request fails: return ""
SecondFails ==
    /\ chat_pc = "second"
    /\ posts' = Append(posts, "RequestException")
    /\ chat_result' = SecondAttemptFailed
    /\ chat_pc' = "returned"
    /\ UNCHANGED << messages, generated >>
    /\ UNCHANGED besidesChat

\* return self.llm.chat(messages, max_tokens=1024)
ReturnAnswer ==
    /\ chat_pc = "returned"
    /\ generated' = chat_result
    /\ chat_pc' = "answered"
    /\ UNCHANGED << messages, posts, chat_result >>
    /\ UNCHANGED besidesChat

ChatNext ==
    \/ FirstSucceeds
    \/ FirstFails
    \/ SecondSucceeds
    \/ SecondFails
    \/ ReturnAnswer

ChatSpec == ChatInit /\ [][ChatNext]_<< chatVars, besidesChat >>

---------------------------------------------------------------------------
\* C26: chat sends at most two requests, the second only after the first
\* failed with a request error (so a successful first request is the only
\* one); when both failed chat returns the empty string and does not raise;
\* generate_answer returns what chat returned.
C26_OneRetryThenEmpty ==
    /\ Len(posts) <= 2
    /\ Len(posts) = 2 => posts[1] = "RequestException"
    /\ posts = << "RequestException", "RequestException" >> =>
          /\ chat_pc \in { "returned", "answered" }
          /\ chat_result = Str(<<>>)
    /\ chat_pc = "raised" => posts[Len(posts)] = "ok"
    /\ chat_pc = "answered" => generated = chat_result

\* both requests failed and the Answer Generator returned the empty string
C26_Witness ==
    /\ chat_pc = "answered"
    /\ posts = << "RequestException", "RequestException" >>
    /\ generated = Str(<<>>)

---------------------------------------------------------------------------
\* generate_credit_memo (src/app.py): the generator event_stream.  A stage
\* (extraction of a pdf, indexing, report generation, assembly) either
\* completes or raises; what the stages do is in the specifications above.

\* the largest number of documents of a request
MaxDocs == 3

\* the request ids: "" is an empty or missing id
RequestIds == { "", "req-1", "req-2" }

\* (variant: only the request id is looked at)
Invalid_id_only(id, docs) == id = ""

\* if not req_id or not doc_base64
Invalid(id, docs) == id = "" \/ docs = 0

\* (variant: the messages of extraction and indexing exchanged)
StageMessage_exchanged(stage) ==
    CASE stage = "received"   -> "Data Received, starting text extraction"
      [] stage = "extraction" -> "embeddings created successfully, starting report generation"
      [] stage = "indexing"   -> "Text extraction completed, starting embedding creation"
      [] stage = "generation" -> "Report generation completed"
      [] stage = "assembly"   -> "Credit memo generated successfully"

\* the message of the progress event yielded when a stage has completed
StageMessage(stage) ==
    CASE stage = "received"   -> "Data Received, starting text extraction"
      [] stage = "extraction" -> "Text extraction completed, starting embedding creation"
      [] stage = "indexing"   -> "embeddings created successfully, starting report generation"
      [] stage = "generation" -> "Report generation completed"
      [] stage = "assembly"   -> "Credit memo generated successfully"

\* {"event": "message", "data": json.dumps(ProcessMessage(...).model_dump())}
ProcessMessage(id, message) ==
    [ kind |-> "progress", req_id |-> id, message |-> message ]

\* PayloadResponse(req_id, credit_memo, success, error_message)
PayloadResponse(id, memo, ok, error) ==
    [ kind |-> "final", req_id |-> id, credit_memo |-> memo,
      success |-> ok, error_message |-> error ]

\* {"error_message": "Invalid input request", "success": False}
InvalidInputResult ==
    [ kind |-> "final", success |-> FALSE,
      error_message |-> "Invalid input request" ]

\* the base64 text of the report file of a request
MemoOf(id) == << "report", id >>

besidesRequest ==
    << vars, runVars, retrieveVars, chunkerVars, splitVars, storeVars, indexVars, extractVars, chatVars, passVars, hitlVars, reactVars, mcpVars,
       agentVars >>

BesidesRequestIdle ==
    EngineInit /\ RunIdle /\ RetrieveIdle /\ ChunkerIdle /\ SplitIdle
    /\ StoreIdle
    /\ IndexIdle
    /\ ExtractIdle
    /\ ChatIdle
    /\ PassIdle
    /\ HitlIdle
    /\ ReactIdle
    /\ McpIdle
    /\ AgentIdle

\* a request has arrived and its stream is iterated
RequestInit ==
    /\ request_pc = "start"
    /\ req_id \in RequestIds
    /\ doc_count \in 0..MaxDocs
    /\ extracted = 0
    /\ stream = <<>>
    /\ temp_dir = "unbound"
    /\ invoked = <<>>
    /\ failed_stage = "none"
    /\ BesidesRequestIdle

\* invalid input: the error result is yielded, return
RejectInput ==
    /\ request_pc = "start"
    /\ Invalid(req_id, doc_count)
    /\ stream' = Append(stream, InvalidInputResult)
    /\ failed_stage' = "validation"
    /\ request_pc' = "finally"
    /\ UNCHANGED << req_id, doc_count, extracted, temp_dir, invoked >>
    /\ UNCHANGED besidesRequest

\* the directory is made, the pdfs are written, "Data Received" is yielded
ReceiveData ==
    /\ request_pc = "start"
    /\ ~Invalid(req_id, doc_count)
    /\ temp_dir' = "exists"
    /\ stream' = Append(stream, ProcessMessage(req_id, StageMessage("received")))
    /\ request_pc' = "extraction"
    /\ UNCHANGED << req_id, doc_count, extracted, invoked, failed_stage >>
    /\ UNCHANGED besidesRequest

\* a document is not valid base64: b64decode raises in the directory just
\* made; the outer handler yields its failure response
ReceiveFails ==
    /\ request_pc = "start"
    /\ ~Invalid(req_id, doc_count)
    /\ temp_dir' = "exists"
    /\ stream' = Append(stream,
          PayloadResponse(req_id, "", FALSE, "Error occurred while execution"))
    /\ failed_stage' = "received"
    /\ request_pc' = "finally"
    /\ UNCHANGED << req_id, doc_count, extracted, invoked >>
    /\ UNCHANGED besidesRequest

\* extractor.extract_pdf returns for the next pdf; after the last one the
\* progress event is yielded
ExtractText ==
    /\ request_pc = "extraction"
    /\ extracted < doc_count
    /\ extracted' = extracted + 1
    /\ invoked' = IF extracted = 0 THEN Append(invoked, "extraction") ELSE invoked
    /\ IF extracted' = doc_count
       THEN /\ stream' = Append(stream,
                   ProcessMessage(req_id, StageMessage("extraction")))
            /\ request_pc' = "indexing"
       ELSE UNCHANGED << stream, request_pc >>
    /\ UNCHANGED << req_id, doc_count, temp_dir, failed_stage >>
    /\ UNCHANGED besidesRequest

\* extractor.extract_pdf raises for the next pdf
ExtractTextFails ==
    /\ request_pc = "extraction"
    /\ extracted < doc_count
    /\ invoked' = IF extracted = 0 THEN Append(invoked, "extraction") ELSE invoked
    /\ stream' = Append(stream,
          PayloadResponse(req_id, "", TRUE, "Error occurred while extracting text"))
    /\ failed_stage' = "extraction"
    /\ request_pc' = "finally"
    /\ UNCHANGED << req_id, doc_count, extracted, temp_dir >>
    /\ UNCHANGED besidesRequest

\* create_embeddings_and_index_async returns
CreateEmbeddings ==
    /\ request_pc = "indexing"
    /\ invoked' = Append(invoked, "indexing")
    /\ stream' = Append(stream, ProcessMessage(req_id, StageMessage("indexing")))
    /\ request_pc' = "generation"
    /\ UNCHANGED << req_id, doc_count, extracted, temp_dir, failed_stage >>
    /\ UNCHANGED besidesRequest

\* create_embeddings_and_index_async raises
CreateEmbeddingsFails ==
    /\ request_pc = "indexing"
    /\ invoked' = Append(invoked, "indexing")
    /\ stream' = Append(stream,
          PayloadResponse(req_id, "", TRUE, "Error occurred while creating embeddings"))
    /\ failed_stage' = "indexing"
    /\ request_pc' = "finally"
    /\ UNCHANGED << req_id, doc_count, extracted, temp_dir >>
    /\ UNCHANGED besidesRequest

\* the rag is built, the tasks are planned and run_rag_tasks_in_parallel
\* returns
GenerateReport ==
    /\ request_pc = "generation"
    /\ invoked' = Append(invoked, "generation")
    /\ stream' = Append(stream, ProcessMessage(req_id, StageMessage("generation")))
    /\ request_pc' = "assembly"
    /\ UNCHANGED << req_id, doc_count, extracted, temp_dir, failed_stage >>
    /\ UNCHANGED besidesRequest

\* the generation raises.  Its handler builds {PayloadResponse(...)
\* .model_dump()}, a set holding a dict: TypeError (unhashable), raised
\* before anything is yielded and caught by the outer handler
GenerateReportFails ==
    /\ request_pc = "generation"
    /\ invoked' = Append(invoked, "generation")
    /\ stream' = Append(stream,
          PayloadResponse(req_id, "", FALSE, "Error occurred while execution"))
    /\ failed_stage' = "generation"
    /\ request_pc' = "finally"
    /\ UNCHANGED << req_id, doc_count, extracted, temp_dir >>
    /\ UNCHANGED besidesRequest

\* the report file is written
FinalizeReport ==
    /\ request_pc = "assembly"
    /\ invoked' = Append(invoked, "assembly")
    /\ stream' = Append(stream, ProcessMessage(req_id, StageMessage("assembly")))
    /\ request_pc' = "delivery"
    /\ UNCHANGED << req_id, doc_count, extracted, temp_dir, failed_stage >>
    /\ UNCHANGED besidesRequest

\* writing the report file raises
FinalizeReportFails ==
    /\ request_pc = "assembly"
    /\ invoked' = Append(invoked, "assembly")
    /\ stream' = Append(stream,
          PayloadResponse(req_id, "", FALSE, "Error occurred while finalizing report"))
    /\ failed_stage' = "assembly"
    /\ request_pc' = "finally"
    /\ UNCHANGED << req_id, doc_count, extracted, temp_dir >>
    /\ UNCHANGED besidesRequest

\* the report file is read and the final response is yielded
SendMemo ==
    /\ request_pc = "delivery"
    /\ stream' = Append(stream,
          PayloadResponse(req_id, MemoOf(req_id), TRUE, "None"))
    /\ request_pc' = "finally"
    /\ UNCHANGED << req_id, doc_count, extracted, temp_dir, invoked,
                    failed_stage >>
    /\ UNCHANGED besidesRequest

\* finally: shutil.rmtree(pdf_file_path)
Cleanup ==
    /\ request_pc = "finally"
    /\ temp_dir = "exists"
    /\ temp_dir' = "removed"
    /\ request_pc' = "closed"
    /\ UNCHANGED << req_id, doc_count, extracted, stream, invoked,
                    failed_stage >>
    /\ UNCHANGED besidesRequest

\* finally: pdf_file_path was never assigned: UnboundLocalError
CleanupRaises ==
    /\ request_pc = "finally"
    /\ temp_dir = "unbound"
    /\ request_pc' = "raised"
    /\ UNCHANGED << req_id, doc_count, extracted, stream, temp_dir, invoked,
                    failed_stage >>
    /\ UNCHANGED besidesRequest

RequestNext ==
    \/ RejectInput
    \/ ReceiveData
    \/ ReceiveFails
    \/ ExtractText
    \/ ExtractTextFails
    \/ CreateEmbeddings
    \/ CreateEmbeddingsFails
    \/ GenerateReport
    \/ GenerateReportFails
    \/ FinalizeReport
    \/ FinalizeReportFails
    \/ SendMemo
    \/ Cleanup
    \/ CleanupRaises

RequestSpec == RequestInit /\ [][RequestNext]_<< requestVars, besidesRequest >>

---------------------------------------------------------------------------
\* the last item yielded
LastYielded == stream[Len(stream)]

\* C27: when input validation, extraction, indexing or the final assembly
\* has failed, no later stage has been entered and the last item of the
\* stream is a failure response: success false, no credit memo, an error
\* message.
C27_StageFailureAborts ==
    failed_stage \in { "validation", "extraction", "indexing", "assembly" } =>
        /\ stream # <<>>
        /\ LastYielded.kind = "final"
        /\ LastYielded.success = FALSE
        /\ LastYielded.error_message # "None"
        /\ failed_stage # "validation" => LastYielded.credit_memo = ""
        /\ IF failed_stage = "validation" THEN invoked = <<>>
           ELSE invoked # <<>> /\ invoked[Len(invoked)] = failed_stage

\* C28: when the stream of a request has ended, on whatever path, the
\* directory of the request does not exist and the cleanup has not raised.
C28_GuaranteedCleanup ==
    /\ request_pc # "raised"
    /\ request_pc = "closed" => temp_dir # "exists"

\* C29: for a request with an empty request id or without documents the
\* first and only item yielded is the error result, no directory or file is
\* made and no stage (extraction, indexing, generation) is entered.
C29_InvalidInputRejected ==
    (request_pc # "idle" /\ (req_id = "" \/ doc_count = 0)) =>
        /\ temp_dir = "unbound"
        /\ invoked = <<>>
        /\ extracted = 0
        /\ IF request_pc = "start" THEN stream = <<>>
           ELSE /\ Len(stream) = 1
                /\ stream[1].kind = "final"
                /\ stream[1].success = FALSE
                /\ stream[1].error_message = "Invalid input request"

\* a request with an id and no document has been rejected
C29_Witness ==
    /\ request_pc = "finally"
    /\ req_id # ""
    /\ doc_count = 0
    /\ stream = << InvalidInputResult >>

\* the progress messages of a successful request, in order
PROGRESS_ORDER ==
    << "Data Received, starting text extraction",
       "Text extraction completed, starting embedding creation",
       "embeddings created successfully, starting report generation",
       "Report generation completed",
       "Credit memo generated successfully" >>

\* C30: the stream is progress events followed, once the generator is at
\* its end, by exactly one final payload, which is its last item; the
\* progress events are the first ones of the fixed order, and all five of
\* them precede the payload of a successful request.
C30_ProgressThenOneFinal ==
    /\ \A i \in 1..(Len(stream) - 1) : stream[i].kind = "progress"
    /\ request_pc \in { "finally", "closed", "raised" } =>
          stream # <<>> /\ LastYielded.kind = "final"
    /\ request_pc \notin { "finally", "closed", "raised" } =>
          \A i \in DOMAIN stream : stream[i].kind = "progress"
    /\ \A i \in DOMAIN stream : stream[i].kind = "progress" =>
          i <= Len(PROGRESS_ORDER) /\ stream[i].message = PROGRESS_ORDER[i]
    /\ (request_pc \in { "finally", "closed" } /\ failed_stage = "none") =>
          /\ Len(stream) = Len(PROGRESS_ORDER) + 1
          /\ LastYielded.success = TRUE
          /\ LastYielded.credit_memo = MemoOf(req_id)

\* a request of several documents has succeeded and its stream is closed
C30_Witness ==
    /\ request_pc = "closed"
    /\ failed_stage = "none"
    /\ doc_count = MaxDocs
    /\ Len(stream) = 6
    /\ LastYielded.credit_memo = MemoOf(req_id)

---------------------------------------------------------------------------
\* The first as_completed loop of run_rag_tasks_in_parallel, statement by
\* statement.  The workers run rag.run and nothing else; the loop and so
\* every statement on results, summary_context and recommendation_context
\* is executed by the thread that called run_rag_tasks_in_parallel.  A
\* write of a list is two steps (the length is read, the element is put),
\* so that two threads writing the same list would be seen to overlap.

\* (variant: a pass is run by the worker of its task, as a done-callback)
Handler_worker(i) == i

\* the thread that runs the pass of future i: the caller of the engine
Handler(i) == 0

besidesPasses ==
    << runVars, retrieveVars, chunkerVars, splitVars, storeVars, indexVars, extractVars, chatVars, requestVars, hitlVars, reactVars, mcpVars,
       agentVars >>

\* the lists a pass writes for a group, in the order of the statements
Targets(g) ==
    << "results" >>
      \o (IF g.include_for_summary THEN << "summary" >> ELSE <<>>)
      \o (IF g.include_for_recommendation THEN << "recommendation" >> ELSE <<>>)

\* the target that follows target in the pass of a group, "none" at the end
TargetAfter(g, target) ==
    LET ts == Targets(g)
        k  == CHOOSE j \in DOMAIN ts : ts[j] = target
    IN  IF k < Len(ts) THEN ts[k + 1] ELSE "none"

\* lst.append(x) by a thread that read the length seen_len
WriteAt(lst, seen_len, x) ==
    IF Len(lst) = seen_len THEN Append(lst, x)
    ELSE [ lst EXCEPT ![seen_len + 1] = x ]

\* the length of the list a pass is about to write
TargetLen(i, target) ==
    CASE target = "results" -> Len(results[parallel_tasks[i][1]])
      [] target = "summary" -> Len(summary_context)
      [] target = "recommendation" -> Len(recommendation_context)

\* as_completed yields future i; future.result() returns or raises (the
\* except branch logs and the pass is over)
TakeCompleted(i) ==
    /\ pc = "as_completed_independent"
    /\ Done(futures[i])
    /\ ~futures[i].processed
    /\ \A t \in Threads : passes[t].future # i
    /\ passes[Handler(i)] = NoPass
    /\ IF futures[i].state = "returned"
       THEN /\ passes' = [ passes EXCEPT ![Handler(i)] =
                   [ future |-> i, target |-> "results", writing |-> FALSE,
                     seen_len |-> 0 ] ]
            /\ UNCHANGED << futures, completion_log >>
       ELSE /\ futures' = [ futures EXCEPT ![i] = HandleException(@) ]
            /\ completion_log' = Append(completion_log, i)
            /\ UNCHANGED passes
    /\ UNCHANGED << entry, pc, parallel_tasks, dep_futures, results,
                    summary_context, recommendation_context, document,
                    error_message >>
    /\ UNCHANGED besidesPasses

\* a thread starts the next statement of its pass: it reads the list
BeginWrite(t) ==
    /\ passes[t].future # 0
    /\ ~passes[t].writing
    /\ passes' = [ passes EXCEPT ![t].writing = TRUE,
                      ![t].seen_len = TargetLen(passes[t].future, passes[t].target) ]
    /\ UNCHANGED vars
    /\ UNCHANGED besidesPasses

\* the statement completes: the element is in the list; after the last
\* statement of the pass the loop takes the next future
EndWrite(t) ==
    /\ passes[t].writing
    /\ LET i       == passes[t].future
           section == parallel_tasks[i][1]
           g       == parallel_tasks[i][2]
           a       == futures[i].result
           target  == passes[t].target
           next    == TargetAfter(g, target)
       IN  /\ results' = IF target = "results"
                THEN [ results EXCEPT ![section] =
                         StoreAnswer(@, OriginalIndex(section, g), a) ]
                ELSE results
           /\ summary_context' = IF target = "summary"
                THEN WriteAt(summary_context, passes[t].seen_len, a)
                ELSE summary_context
           /\ recommendation_context' = IF target = "recommendation"
                THEN WriteAt(recommendation_context, passes[t].seen_len, a)
                ELSE recommendation_context
           /\ IF next = "none"
              THEN /\ passes' = [ passes EXCEPT ![t] = NoPass ]
                   /\ futures' = [ futures EXCEPT ![i].processed = TRUE ]
                   /\ completion_log' = Append(completion_log, i)
              ELSE /\ passes' = [ passes EXCEPT ![t].target = next,
                                                ![t].writing = FALSE ]
                   /\ UNCHANGED << futures, completion_log >>
    /\ UNCHANGED << entry, pc, parallel_tasks, dep_futures, document,
                    error_message >>
    /\ UNCHANGED besidesPasses

MutationNext ==
    \/ Plan
    \/ SubmitIndependent
    \/ \E i \in 1..Len(futures) : RunReturns(i)
    \/ \E i \in 1..Len(futures) : RunRaises(i)
    \/ \E i \in 1..Len(futures) : TakeCompleted(i)
    \/ \E t \in Threads : BeginWrite(t)
    \/ \E t \in Threads : EndWrite(t)
    \/ JoinIndependent

MutationSpec == Init /\ [][MutationNext]_<< vars, besidesEngine >>

---------------------------------------------------------------------------
\* the threads writing a list at this moment
Writers(target) ==
    { t \in Threads : passes[t].writing /\ passes[t].target = target }

\* the answers of the tasks that returned, were handled and carry a flag,
\* as a set
HandledAnswers(flagged(_)) ==
    { futures[i].result :
        i \in { j \in 1..Len(futures) :
                  /\ futures[j].state = "returned"
                  /\ futures[j].processed
                  /\ flagged(parallel_tasks[j][2]) } }

ForSummary(g) == g.include_for_summary

ForRecommendation(g) == g.include_for_recommendation

\* the number of handled tasks that returned and carry a flag
HandledCount(flagged(_)) ==
    Cardinality({ j \in 1..Len(futures) :
                    /\ futures[j].state = "returned"
                    /\ futures[j].processed
                    /\ flagged(parallel_tasks[j][2]) })

\* the elements of a list
Elements(lst) == { lst[k] : k \in DOMAIN lst }

\* C31: at no time are two threads writing the same shared list (the
\* results map, the summary context, the recommendation context), and no
\* append is lost: when the loop is over each context list has one element
\* per task that returned with its flag, and holds each of their answers.
C31_MutationsExclusive ==
    /\ \A target \in { "results", "summary", "recommendation" } :
          Cardinality(Writers(target)) <= 1
    /\ pc = AfterJoin =>
          /\ Len(summary_context) = HandledCount(ForSummary)
          /\ Len(recommendation_context) = HandledCount(ForRecommendation)
          /\ Elements(summary_context) = HandledAnswers(ForSummary)
          /\ Elements(recommendation_context) = HandledAnswers(ForRecommendation)

\* two tasks with both flags returned at the same time, the second was
\* handled first, and both answers are in both lists
C31_Witness ==
    /\ pc = AfterJoin
    /\ Len(parallel_tasks) = 2
    /\ completion_log = << 2, 1 >>
    /\ \A i \in 1..2 : /\ futures[i].state = "returned"
                       /\ parallel_tasks[i][2].include_for_summary
                       /\ parallel_tasks[i][2].include_for_recommendation
    /\ Len(summary_context) = 2
    /\ Len(recommendation_context) = 2

---------------------------------------------------------------------------
\* the sections all of whose groups are tasks of this run
PlannedInFull ==
    { section \in Sections \ DependentSections :
        \A k \in 1..Len(CREDIT_MEMO_SECTIONS[section]) :
           \E i \in 1..Len(parallel_tasks) :
              parallel_tasks[i] = << section, CREDIT_MEMO_SECTIONS[section][k] >> }

\* the task of group k of a section planned in full
TaskOf(section, k) ==
    CHOOSE i \in 1..Len(parallel_tasks) :
       parallel_tasks[i] = << section, CREDIT_MEMO_SECTIONS[section][k] >>

\* C32: after the independent phase the result list of every independent
\* section is as long as the section's group list, and holds None in the
\* slot of every group whose task raised or produced nothing, whichever
\* groups failed (the last one of the section included).
C32_FullLengthResults ==
    pc = AfterJoin =>
       \A section \in PlannedInFull :
          /\ Len(results[section]) = Len(CREDIT_MEMO_SECTIONS[section])
          /\ \A k \in 1..Len(CREDIT_MEMO_SECTIONS[section]) :
                (\/ futures[TaskOf(section, k)].state = "raised"
                 \/ ~Truthy(futures[TaskOf(section, k)].result))
                   => results[section][k] = None

---------------------------------------------------------------------------
\* the answers returned in this run by the tasks of the groups that carry
\* a flag, independent and dependent alike
ReturnedWith(flag) ==
    { futures[i].result :
        i \in { j \in 1..Len(futures) :
                  futures[j].state = "returned" /\ parallel_tasks[j][2][flag] } }
    \union
    { dep_futures[s].result :
        s \in { t \in DependentSections :
                  /\ dep_futures[t].state = "returned"
                  /\ CREDIT_MEMO_SECTIONS[t][1][flag] } }

\* C33: the answer of every group of CREDIT_MEMO_SECTIONS flagged
\* include_for_summary (the Recommendation and Conclusion group included)
\* whose task returned is an element of the context given to the Executive
\* Summary call, and the answer of every group flagged
\* include_for_recommendation is in the context given to the
\* Recommendation call.
C33_FlaggedAnswersReachContext ==
    pc = "done" =>
       /\ \A a \in ReturnedWith("include_for_summary") :
             \E k \in DOMAIN dep_futures[summary_group[1]].context :
                dep_futures[summary_group[1]].context[k] = a
       /\ \A a \in ReturnedWith("include_for_recommendation") :
             \E k \in DOMAIN dep_futures[recommendation_group[1]].context :
                dep_futures[recommendation_group[1]].context[k] = a

---------------------------------------------------------------------------
\* the independent tasks handled so far that returned
StoredTasks == { i \in 1..Len(futures) :
              futures[i].state = "returned" /\ futures[i].processed }

\* a slot of an independent section that holds an answer keeps it
SlotsKeepAnswer ==
    \A section \in Sections \ DependentSections :
       \A k \in DOMAIN results[section] :
          results[section][k] # None =>
             /\ k \in DOMAIN results'[section]
             /\ results'[section][k] = results[section][k]

\* C34: within a section distinct groups go to distinct slots.  The lookup
\* by group value gives different indices to different groups of a section,
\* the slot of a group holds the answer of that group's task and of no
\* other, and a slot that has been written is not written again in the run.
C34_DistinctSlots ==
    /\ [](\A i, j \in StoredTasks :
             (i # j /\ parallel_tasks[i][1] = parallel_tasks[j][1]) =>
                OriginalIndex(parallel_tasks[i][1], parallel_tasks[i][2])
                  # OriginalIndex(parallel_tasks[j][1], parallel_tasks[j][2]))
    /\ [](\A i \in StoredTasks :
             \A k \in 1..Len(CREDIT_MEMO_SECTIONS[parallel_tasks[i][1]]) :
                CREDIT_MEMO_SECTIONS[parallel_tasks[i][1]][k] = parallel_tasks[i][2]
                   => /\ k \in DOMAIN results[parallel_tasks[i][1]]
                      /\ results[parallel_tasks[i][1]][k] = futures[i].result)
    /\ [][SlotsKeepAnswer]_vars

\* two groups of one section with the same flags have both returned, the
\* later one first, and their answers sit in two adjacent slots
C34_Witness ==
    /\ pc = AfterJoin
    /\ StoredTasks = { 1, 2 }
    /\ completion_log = << 2, 1 >>
    /\ parallel_tasks[1][1] = parallel_tasks[2][1]
    /\ parallel_tasks[1][2].include_for_summary
          = parallel_tasks[2][2].include_for_summary
    /\ parallel_tasks[1][2].include_for_recommendation
          = parallel_tasks[2][2].include_for_recommendation
    /\ Truthy(futures[1].result) /\ Truthy(futures[2].result)
    /\ \E k \in DOMAIN results[parallel_tasks[1][1]] :
          /\ results[parallel_tasks[1][1]][k] = futures[1].result
          /\ results[parallel_tasks[1][1]][k + 1] = futures[2].result

---------------------------------------------------------------------------
\* The review queue of the evaluation framework (HITLEvaluator), from an
\* empty output directory: items are logged, reviewed, listed and counted.
MaxItems == 3

MaxLimit == 2

\* the hallucination types a reviewer may name
HallucinationTypes == { "factual_error", "unsupported" }

\* the hallucination_types argument: absent (None) or a list
TypeArguments ==
    { [ none |-> TRUE, list |-> <<>> ],
      [ none |-> FALSE, list |-> <<>> ],
      [ none |-> FALSE, list |-> << "factual_error" >> ],
      [ none |-> FALSE, list |-> << "factual_error", "unsupported" >> ] }

\* ReviewItem(...) as log_output builds it: the status is the default
NewReviewItem(id) ==
    [ id |-> id, status |-> "pending", hallucination_types |-> <<>> ]

\* (variant: a rejected item is set aside as skipped)
StatusFor_skipped(approved) == IF approved THEN "approved" ELSE "skipped"

\* ReviewStatus.APPROVED if approved else ReviewStatus.REJECTED
StatusFor(approved) == IF approved THEN "approved" ELSE "rejected"

\* the first review with this id, 0 if there is none
FirstWithId(rs, item_id) ==
    IF \E k \in DOMAIN rs : rs[k].id = item_id
    THEN CHOOSE k \in DOMAIN rs :
            /\ rs[k].id = item_id
            /\ \A j \in 1..(k - 1) : rs[j].id # item_id
    ELSE 0

\* [r for r in rs if r.status in statuses]
RECURSIVE WithStatus(_, _)
WithStatus(rs, statuses) ==
    IF rs = <<>> THEN <<>>
    ELSE (IF Head(rs).status \in statuses THEN << Head(rs) >> ELSE <<>>)
           \o WithStatus(Tail(rs), statuses)

\* lst[:limit], for a limit of either sign
SliceTo(lst, limit) ==
    IF limit >= 0
    THEN SubSeq(lst, 1, IF limit < Len(lst) THEN limit ELSE Len(lst))
    ELSE SubSeq(lst, 1, IF Len(lst) + limit > 0 THEN Len(lst) + limit ELSE 0)

\* round(n / d, 4), in ten-thousandths
Rate(n, d) == (2 * n * 10000 + d) \div (2 * d)

\* error_breakdown after the types of one list have been counted
RECURSIVE CountTypes(_, _)
CountTypes(breakdown, types) ==
    IF types = <<>> THEN breakdown
    ELSE LET t == Head(types)
             n == IF t \in DOMAIN breakdown THEN breakdown[t] ELSE 0
         IN  CountTypes([ u \in DOMAIN breakdown \union { t } |->
                            IF u = t THEN n + 1 ELSE breakdown[u] ],
                        Tail(types))

\* the loop over reviewed: the types of the rejected items are counted
RECURSIVE ErrorBreakdown(_, _)
ErrorBreakdown(breakdown, reviewed) ==
    IF reviewed = <<>> THEN breakdown
    ELSE ErrorBreakdown(
            IF Head(reviewed).status = "rejected"
            THEN CountTypes(breakdown, Head(reviewed).hallucination_types)
            ELSE breakdown,
            Tail(reviewed))

\* what get_statistics returns for a list of reviews
Statistics(rs) ==
    LET reviewed == WithStatus(rs, { "approved", "rejected" })
        approved == Len(WithStatus(reviewed, { "approved" }))
        rejected == Len(WithStatus(reviewed, { "rejected" }))
    IN  IF reviewed = <<>>
        THEN [ total_reviewed |-> 0, hallucination_rate |-> 0 ]
        ELSE [ total_reviewed |-> Len(reviewed),
               approved |-> approved,
               rejected |-> rejected,
               hallucination_rate |-> Rate(rejected, Len(reviewed)),
               accuracy_rate |-> Rate(approved, Len(reviewed)),
               error_breakdown |-> ErrorBreakdown(<<>>, reviewed),
               pending_reviews |-> Len(WithStatus(rs, { "pending" })) ]

besidesHitl ==
    << vars, runVars, retrieveVars, chunkerVars, splitVars, storeVars, indexVars, extractVars, chatVars, requestVars, passVars, reactVars, mcpVars,
       agentVars >>

BesidesHitlIdle ==
    EngineInit /\ RunIdle /\ RetrieveIdle /\ ChunkerIdle /\ SplitIdle
    /\ StoreIdle
    /\ IndexIdle
    /\ ExtractIdle
    /\ ChatIdle
    /\ RequestIdle
    /\ PassIdle
    /\ ReactIdle
    /\ McpIdle
    /\ AgentIdle

\* HITLEvaluator(output_dir) on a directory without reviews.json
HitlInit == HitlIdle /\ BesidesHitlIdle

\* log_output: a new item is appended and the file written
LogOutput ==
    /\ Len(reviews) < MaxItems
    /\ reviews' = Append(reviews, NewReviewItem(next_id))
    /\ reviews_file' = reviews'
    /\ next_id' = next_id + 1
    /\ hitl_call' = [ op |-> "log_output", value |-> next_id ]
    /\ UNCHANGED besidesHitl

\* mark_reviewed for an id of the queue: the first item with the id gets
\* its status (and its types, when a non-empty list is given); file written
MarkReviewed(item_id, approved, types) ==
    /\ FirstWithId(reviews, item_id) # 0
    /\ LET k == FirstWithId(reviews, item_id)
       IN  reviews' = [ reviews EXCEPT
               ![k].status = StatusFor(approved),
               ![k].hallucination_types =
                   IF ~types.none /\ types.list # <<>> THEN types.list ELSE @ ]
    /\ reviews_file' = reviews'
    /\ hitl_call' = [ op |-> "mark_reviewed", item_id |-> item_id,
                      approved |-> approved, raised |-> "" ]
    /\ UNCHANGED next_id
    /\ UNCHANGED besidesHitl

\* mark_reviewed for an id that no item has: the loop ends, ValueError
MarkReviewedNotFound(item_id, approved) ==
    /\ FirstWithId(reviews, item_id) = 0
    /\ hitl_call' = [ op |-> "mark_reviewed", item_id |-> item_id,
                      approved |-> approved, raised |-> "ValueError" ]
    /\ UNCHANGED << reviews, reviews_file, next_id >>
    /\ UNCHANGED besidesHitl

\* get_pending_reviews(limit)
GetPendingReviews(limit) ==
    /\ hitl_call' = [ op |-> "get_pending_reviews", limit |-> limit,
                      value |-> SliceTo(WithStatus(reviews, { "pending" }), limit) ]
    /\ UNCHANGED << reviews, reviews_file, next_id >>
    /\ UNCHANGED besidesHitl

\* get_statistics()
GetStatistics ==
    /\ hitl_call' = [ op |-> "get_statistics", value |-> Statistics(reviews) ]
    /\ UNCHANGED << reviews, reviews_file, next_id >>
    /\ UNCHANGED besidesHitl

HitlNext ==
    \/ LogOutput
    \/ \E item_id \in 1..(MaxItems + 1), approved \in BOOLEAN,
          types \in TypeArguments : MarkReviewed(item_id, approved, types)
    \/ \E item_id \in 1..(MaxItems + 1), approved \in BOOLEAN :
          MarkReviewedNotFound(item_id, approved)
    \/ \E limit \in (0 - 1)..MaxLimit : GetPendingReviews(limit)
    \/ GetStatistics

HitlSpec == HitlInit /\ [][HitlNext]_<< hitlVars, besidesHitl >>

---------------------------------------------------------------------------
\* the position in the queue of an item that get_pending_reviews returned
PositionOf(item) == CHOOSE p \in DOMAIN reviews : reviews[p] = item

\* the number of pending items of the queue before position p
PendingBefore(p) ==
    Cardinality({ q \in 1..(p - 1) : reviews[q].status = "pending" })

\* what get_pending_reviews returned holds pending items of the queue only,
\* the first ones, in logging order
ReturnsFirstPending ==
    hitl_call.op = "get_pending_reviews" =>
       \A k \in DOMAIN hitl_call.value :
          /\ \E p \in DOMAIN reviews : reviews[p] = hitl_call.value[k]
          /\ hitl_call.value[k].status = "pending"
          /\ PendingBefore(PositionOf(hitl_call.value[k])) = k - 1

\* the steps of the life of a review item: created pending by log_output,
\* changed by mark_reviewed only, to approved or rejected as told, never
\* back to pending and never to skipped; an unknown id raises ValueError
\* and changes nothing
LifecycleStep ==
    /\ hitl_call'.op = "log_output" =>
          /\ Len(reviews') = Len(reviews) + 1
          /\ reviews'[Len(reviews')].id = hitl_call'.value
          /\ reviews'[Len(reviews')].status = "pending"
    /\ \A k \in DOMAIN reviews :
          /\ k \in DOMAIN reviews'
          /\ reviews'[k].id = reviews[k].id
          /\ reviews'[k].status # "skipped"
          /\ reviews[k].status # "pending" => reviews'[k].status # "pending"
          /\ reviews'[k] # reviews[k] =>
                /\ hitl_call'.op = "mark_reviewed"
                /\ hitl_call'.raised = ""
                /\ hitl_call'.item_id = reviews[k].id
    /\ hitl_call'.op = "mark_reviewed" =>
          IF \E k \in DOMAIN reviews : reviews[k].id = hitl_call'.item_id
          THEN /\ hitl_call'.raised = ""
               /\ \E k \in DOMAIN reviews :
                     /\ reviews[k].id = hitl_call'.item_id
                     /\ reviews'[k].status =
                           IF hitl_call'.approved THEN "approved" ELSE "rejected"
          ELSE /\ hitl_call'.raised = "ValueError"
               /\ reviews' = reviews
               /\ reviews_file' = reviews_file

\* C35: every item created by log_output starts pending; only
\* mark_reviewed changes a status, to approved when approved is true and to
\* rejected otherwise; no item returns to pending or becomes skipped;
\* get_pending_reviews returns pending items only, the first ones in
\* logging order, at most `limit` of them (limit a count; a negative limit
\* is Python's slice from the end: all pending items but the last -limit);
\* mark_reviewed with an id not in the queue raises ValueError and leaves
\* every item unchanged.
C35_ReviewLifecycle ==
    /\ [](ReturnsFirstPending)
    /\ [](hitl_call.op = "get_pending_reviews" =>
             LET pending == Cardinality({ p \in DOMAIN reviews :
                                            reviews[p].status = "pending" })
                 limit   == hitl_call.limit
             IN  IF limit >= 0
                 THEN Len(hitl_call.value) =
                         (IF limit < pending THEN limit ELSE pending)
                 ELSE Len(hitl_call.value) =
                         (IF pending + limit > 0 THEN pending + limit ELSE 0))
    /\ [][LifecycleStep]_hitlVars

\* a rejected item and two pending ones; get_pending_reviews(1) has returned
\* the older of the two
C35_Witness ==
    /\ Len(reviews) = 3
    /\ reviews[1].status = "rejected"
    /\ reviews[2].status = "pending"
    /\ reviews[3].status = "pending"
    /\ hitl_call.op = "get_pending_reviews"
    /\ hitl_call.limit = 1
    /\ hitl_call.value = << reviews[2] >>

---------------------------------------------------------------------------
\* how many times the rejected items of the queue name a hallucination type
RejectedNaming(t) ==
    Cardinality({ pos \in (DOMAIN reviews) \X (1..2) :
                    /\ reviews[pos[1]].status = "rejected"
                    /\ pos[2] \in DOMAIN reviews[pos[1]].hallucination_types
                    /\ reviews[pos[1]].hallucination_types[pos[2]] = t })

\* C36: after any sequence of log_output and mark_reviewed calls,
\* get_statistics returns a dictionary with the keys total_reviewed,
\* approved, rejected, hallucination_rate and error_breakdown, in which
\* approved + rejected = total_reviewed, total_reviewed + pending_reviews is
\* the number of logged items, and error_breakdown counts the hallucination
\* types of the items that are now rejected, and of no others.
C36_StatisticsConsistent ==
    hitl_call.op = "get_statistics" =>
       LET stats == hitl_call.value
       IN  /\ { "total_reviewed", "approved", "rejected", "hallucination_rate",
                "error_breakdown" } \subseteq DOMAIN stats
           /\ stats.approved + stats.rejected = stats.total_reviewed
           /\ stats.total_reviewed + stats.pending_reviews = Len(reviews)
           /\ \A t \in HallucinationTypes :
                 IF RejectedNaming(t) = 0
                 THEN t \notin DOMAIN stats.error_breakdown
                 ELSE /\ t \in DOMAIN stats.error_breakdown
                      /\ stats.error_breakdown[t] = RejectedNaming(t)

---------------------------------------------------------------------------
\* ReActAgent.run, for an agent built by create_credit_memo_agent: the tools
\* retrieve and web_search are registered, calculate is not.  The LLM is
\* taken to return a text at every call.
MaxSteps == 2

\* AgentAction, by value
AgentActions == { "retrieve", "web_search", "calculate", "final_answer" }

\* the keys of self.tools
RegisteredTools == { "retrieve", "web_search" }

\* the texts the LLM may return, by what the three patterns of
\* _parse_response find in them: a "Final Answer:" part, the word after
\* "Action:" ("" if there is none) and the "Action Input:" part
Responses ==
    [ final : BOOLEAN,
      action : { "", "retrieve", "calculate", "final_answer", "lookup" },
      input : { "none", "invalid", "object" } ]

\* the text after "Final Answer:", stripped
FinalPart(response) == Str(<< "final answer" >>)

\* the whole text of a response
TextOf(response) == Str(<< "response" >>)

\* _parse_response: the AgentStep of a response.  action is "none" for
\* None, action_input is whether the dict is non-empty, tool records what
\* became of the tool call of the step
ParseResponse(response) ==
    IF response.final
    THEN [ action |-> "final_answer", action_input |-> FALSE,
           observation |-> FinalPart(response), tool |-> "not_run" ]
    ELSE IF response.action # ""
    THEN [ action |-> IF response.action \in AgentActions
                      THEN response.action ELSE "none",
           action_input |-> response.input = "object",
           observation |-> None, tool |-> "not_run" ]
    ELSE [ action |-> "final_answer", action_input |-> FALSE,
           observation |-> TextOf(response), tool |-> "not_run" ]

\* what a registered tool may do
ToolOutcomes == { "documents", "no_documents", "raises" }

\* _execute_tool, for a registered tool with the given outcome
Observation(tool_name, outcome) ==
    CASE outcome = "documents" -> Str(<< "[1] (Page 1): ..." >>)
      [] outcome = "no_documents" -> Str(<< "No results found." >>)
      [] outcome = "raises" -> Str(<< "Error executing", tool_name >>)

\* _execute_tool, for a name that is not a key of self.tools
UnknownTool(tool_name) == Str(<< "Error: Unknown tool", tool_name >>)

\* final_step.observation or "Unable to determine answer."
OrUnable(observation) ==
    IF Truthy(observation) THEN observation
    ELSE Str(<< "Unable to determine answer." >>)

besidesReact ==
    << vars, runVars, retrieveVars, chunkerVars, splitVars, storeVars, indexVars, extractVars, chatVars, requestVars, passVars, hitlVars, mcpVars,
       agentVars >>

BesidesReactIdle ==
    EngineInit /\ RunIdle /\ RetrieveIdle /\ ChunkerIdle /\ SplitIdle
    /\ StoreIdle
    /\ IndexIdle
    /\ ExtractIdle
    /\ ChatIdle
    /\ RequestIdle
    /\ PassIdle
    /\ HitlIdle
    /\ McpIdle
    /\ AgentIdle

\* ReActAgent(llm, tools, max_steps) and the start of run
ReactInit ==
    /\ react_pc = "loop"
    /\ max_steps \in 0..MaxSteps
    /\ steps = <<>>
    /\ llm_calls = 0
    /\ tool_calls = 0
    /\ react_answer = None
    /\ BesidesReactIdle

\* an iteration whose response is parsed as the final answer: run returns
ReturnFinalAnswer(response) ==
    /\ react_pc = "loop"
    /\ Len(steps) < max_steps
    /\ ParseResponse(response).action = "final_answer"
    /\ llm_calls' = llm_calls + 1
    /\ steps' = Append(steps, ParseResponse(response))
    /\ react_answer' = ParseResponse(response).observation
    /\ react_pc' = "returned"
    /\ UNCHANGED << max_steps, tool_calls >>
    /\ UNCHANGED besidesReact

\* an iteration without an action or without an input: no tool is executed
StepWithoutTool(response) ==
    /\ react_pc = "loop"
    /\ Len(steps) < max_steps
    /\ LET step == ParseResponse(response)
       IN  /\ step.action # "final_answer"
           /\ ~(step.action # "none" /\ step.action_input)
           /\ steps' = Append(steps, step)
    /\ llm_calls' = llm_calls + 1
    /\ UNCHANGED << react_pc, max_steps, tool_calls, react_answer >>
    /\ UNCHANGED besidesReact

\* an iteration that executes a registered tool
StepWithTool(response, outcome) ==
    /\ react_pc = "loop"
    /\ Len(steps) < max_steps
    /\ LET step == ParseResponse(response)
       IN  /\ step.action # "final_answer"
           /\ step.action # "none" /\ step.action_input
           /\ step.action \in RegisteredTools
           /\ steps' = Append(steps,
                  [ step EXCEPT !.observation = Observation(step.action, outcome),
                                !.tool = IF outcome = "raises" THEN "raised"
                                         ELSE "returned" ])
    /\ llm_calls' = llm_calls + 1
    /\ tool_calls' = tool_calls + 1
    /\ UNCHANGED << react_pc, max_steps, react_answer >>
    /\ UNCHANGED besidesReact

\* an iteration whose action is not a key of self.tools
StepWithUnknownTool(response) ==
    /\ react_pc = "loop"
    /\ Len(steps) < max_steps
    /\ LET step == ParseResponse(response)
       IN  /\ step.action # "final_answer"
           /\ step.action # "none" /\ step.action_input
           /\ step.action \notin RegisteredTools
           /\ steps' = Append(steps,
                  [ step EXCEPT !.observation = UnknownTool(step.action),
                                !.tool = "unknown" ])
    /\ llm_calls' = llm_calls + 1
    /\ UNCHANGED << react_pc, max_steps, tool_calls, react_answer >>
    /\ UNCHANGED besidesReact

\* the loop is over: one more call, whose step is appended whatever it is
ForceAnswer(response) ==
    /\ react_pc = "loop"
    /\ Len(steps) = max_steps
    /\ llm_calls' = llm_calls + 1
    /\ steps' = Append(steps, ParseResponse(response))
    /\ react_answer' = OrUnable(ParseResponse(response).observation)
    /\ react_pc' = "returned"
    /\ UNCHANGED << max_steps, tool_calls >>
    /\ UNCHANGED besidesReact

ReactNext ==
    \/ \E response \in Responses : ReturnFinalAnswer(response)
    \/ \E response \in Responses : StepWithoutTool(response)
    \/ \E response \in Responses, outcome \in ToolOutcomes :
          StepWithTool(response, outcome)
    \/ \E response \in Responses : StepWithUnknownTool(response)
    \/ \E response \in Responses : ForceAnswer(response)

ReactSpec == ReactInit /\ [][ReactNext]_<< reactVars, besidesReact >>

\* C37: run makes at most max_steps + 1 LLM calls and returns at the first
\* step parsed as a final answer, with no tool executed in or after that
\* step; after max_steps steps without a final answer it makes one more
\* call and returns; it returns (answer, steps) with answer a string, never
\* None, and len(steps) <= max_steps + 1; a tool that raises or is not
\* registered gives an error string as the observation of its step and the
\* loop goes on.
C37_RunReturnsString ==
    /\ llm_calls <= max_steps + 1
    /\ Len(steps) <= max_steps + 1
    /\ llm_calls = Len(steps)
    /\ tool_calls = Cardinality({ k \in DOMAIN steps :
                                    steps[k].tool \in { "returned", "raised" } })
    /\ \A k \in DOMAIN steps :
          /\ steps[k].tool \in { "raised", "unknown" } =>
                /\ Truthy(steps[k].observation)
                /\ steps[k].observation.lines[1]
                      \in { "Error executing", "Error: Unknown tool" }
                /\ (k < Len(steps) \/ react_pc = "loop")
          /\ steps[k].action = "final_answer" =>
                /\ k = Len(steps)
                /\ react_pc = "returned"
                /\ steps[k].tool = "not_run"
    /\ react_pc = "loop" => Len(steps) < max_steps + 1
    /\ react_pc = "returned" =>
          /\ \/ steps[Len(steps)].action = "final_answer"
             \/ Len(steps) = max_steps + 1
          /\ steps[Len(steps)].tool = "not_run"
          /\ ~react_answer.none

---------------------------------------------------------------------------
\* The MCP server (CreditMemoMCPServer and handle_mcp_request): requests
\* are handled one after the other; resources may be registered in between.
MaxRequestId == 2

MaxResources == 2

\* the tools of _register_default_tools
DEFAULT_TOOLS ==
    { "retrieve_documents", "web_search", "generate_section", "calculate_ratio" }

\* request.get("id"): None when the request has no id
JsonRpcIds ==
    { [ present |-> FALSE, id |-> 0 ] }
      \union { [ present |-> TRUE, id |-> n ] : n \in 1..MaxRequestId }

\* params.get("arguments", {}) by what becomes of tool.execute(**arguments):
\* the function accepts the keywords and returns, accepts them and raises,
\* does not accept them (unexpected or missing keyword), or the dict has
\* the key "self", which execute itself does not accept
ArgumentKinds == { "accepted", "raising", "not_accepted", "self_keyword" }

\* the requests handled
McpRequests ==
    [ method : { "tools/list", "tools/call", "resources/list", "tools/run" },
      id : JsonRpcIds,
      name : { "retrieve_documents", "calculate_ratio", "summarize" },
      arguments : ArgumentKinds ]

\* json.dumps({"error": ...})
ErrorJson(message) == [ type |-> "str", error |-> TRUE, body |-> message ]

\* MCPTool.execute(**kwargs) once the call has bound its arguments
Execute(tool_name, arguments) ==
    CASE arguments = "accepted" ->
           [ type |-> "str", error |-> FALSE, body |-> tool_name ]
      [] arguments = "raising" -> ErrorJson("exception of the tool")
      [] arguments = "not_accepted" -> ErrorJson("TypeError of the function")

\* call_tool(tool_name, arguments): what it returns, or what it raises
CallTool(registry, tool_name, arguments) ==
    IF tool_name \notin registry
    THEN [ called |-> TRUE, raised |-> "",
           value |-> ErrorJson("Unknown tool") ]
    ELSE IF arguments = "self_keyword"
    THEN [ called |-> TRUE, raised |-> "TypeError",
           value |-> ErrorJson("") ]
    ELSE [ called |-> TRUE, raised |-> "",
           value |-> Execute(tool_name, arguments) ]

\* the envelope handle_mcp_request returns
JsonRpcResponse(result, request) ==
    [ raised |-> "", jsonrpc |-> "2.0", result |-> result, id |-> request.id ]

besidesMcp ==
    << vars, runVars, retrieveVars, chunkerVars, splitVars, storeVars, indexVars, extractVars, chatVars, requestVars, passVars, hitlVars, reactVars,
       agentVars >>

BesidesMcpIdle ==
    EngineInit /\ RunIdle /\ RetrieveIdle /\ ChunkerIdle /\ SplitIdle
    /\ StoreIdle
    /\ IndexIdle
    /\ ExtractIdle
    /\ ChatIdle
    /\ RequestIdle
    /\ PassIdle
    /\ HitlIdle
    /\ ReactIdle
    /\ AgentIdle

\* mcp_server = CreditMemoMCPServer()
McpInit ==
    /\ mcp_tools = DEFAULT_TOOLS
    /\ mcp_resources = {}
    /\ mcp_request = NoRequest
    /\ call_outcome = NotCalled
    /\ mcp_response = NoResponse
    /\ BesidesMcpIdle

\* register_resource, called by the application between requests
RegisterResource(uri) ==
    /\ mcp_resources' = mcp_resources \union { uri }
    /\ UNCHANGED << mcp_tools, mcp_request, call_outcome, mcp_response >>
    /\ UNCHANGED besidesMcp

\* handle_mcp_request, method tools/list
HandleToolsList(request) ==
    /\ request.method = "tools/list"
    /\ mcp_request' = request
    /\ call_outcome' = NotCalled
    /\ mcp_response' =
          JsonRpcResponse([ type |-> "list", error |-> FALSE, body |-> mcp_tools ],
                          request)
    /\ UNCHANGED << mcp_tools, mcp_resources >>
    /\ UNCHANGED besidesMcp

\* handle_mcp_request, method tools/call: the result of call_tool, or its
\* exception
HandleToolsCall(request) ==
    /\ request.method = "tools/call"
    /\ mcp_request' = request
    /\ call_outcome' = CallTool(mcp_tools, request.name, request.arguments)
    /\ mcp_response' =
          IF call_outcome'.raised = ""
          THEN JsonRpcResponse(call_outcome'.value, request)
          ELSE [ raised |-> call_outcome'.raised ]
    /\ UNCHANGED << mcp_tools, mcp_resources >>
    /\ UNCHANGED besidesMcp

\* handle_mcp_request, method resources/list
HandleResourcesList(request) ==
    /\ request.method = "resources/list"
    /\ mcp_request' = request
    /\ call_outcome' = NotCalled
    /\ mcp_response' =
          JsonRpcResponse([ type |-> "list", error |-> FALSE,
                            body |-> mcp_resources ], request)
    /\ UNCHANGED << mcp_tools, mcp_resources >>
    /\ UNCHANGED besidesMcp

\* handle_mcp_request, any other method
HandleUnknownMethod(request) ==
    /\ request.method \notin { "tools/list", "tools/call", "resources/list" }
    /\ mcp_request' = request
    /\ call_outcome' = NotCalled
    /\ mcp_response' =
          JsonRpcResponse([ type |-> "dict", error |-> TRUE,
                            body |-> "Unknown method" ], request)
    /\ UNCHANGED << mcp_tools, mcp_resources >>
    /\ UNCHANGED besidesMcp

McpNext ==
    \/ \E uri \in 1..MaxResources : RegisterResource(uri)
    \/ \E request \in McpRequests : HandleToolsList(request)
    \/ \E request \in McpRequests : HandleToolsCall(request)
    \/ \E request \in McpRequests : HandleResourcesList(request)
    \/ \E request \in McpRequests : HandleUnknownMethod(request)

McpSpec == McpInit /\ [][McpNext]_<< mcpVars, besidesMcp >>

\* a request leaves both registries as they are
RegistryKept ==
    mcp_request' # mcp_request =>
       mcp_tools' = mcp_tools /\ mcp_resources' = mcp_resources

\* C38: errors are reported as values.  call_tool never raises: for an
\* unknown tool name, a tool function that raises and arguments the tool
\* does not accept it returns a JSON string with an "error" field;
\* handle_mcp_request returns for every request a JSON-RPC response with
\* the id of the request, whose result is an error for an unknown method;
\* no request changes the tool registry or the resource registry.
C38_ErrorsAsValues ==
    /\ [](call_outcome.called =>
             /\ call_outcome.raised = ""
             /\ call_outcome.value.type = "str"
             /\ (\/ mcp_request.name \notin mcp_tools
                 \/ mcp_request.arguments # "accepted")
                   => call_outcome.value.error)
    /\ [](mcp_request # NoRequest =>
             /\ mcp_response.raised = ""
             /\ mcp_response.jsonrpc = "2.0"
             /\ mcp_response.id = mcp_request.id
             /\ mcp_request.method
                   \notin { "tools/list", "tools/call", "resources/list" }
                   => mcp_response.result.error)
    /\ [][RegistryKept]_mcpVars

---------------------------------------------------------------------------
\* MultiAgentOrchestrator.generate_credit_memo on one event loop.  process
\* is a coroutine function without an await: once the loop starts the task
\* of an agent, the call of llm.chat blocks the loop until it returns or
\* raises, and only then is the next task started.

\* the keys of tasks, in the order of the dict
SPECIALISTS == << "financial_analyst", "risk_analyst", "compliance_reviewer" >>

Specialists == { SPECIALISTS[k] : k \in DOMAIN SPECIALISTS }

\* what llm.chat may return
Outputs == { "", "analysis" }

\* the context arguments explored
Contexts == { "", "documents" }

\* the tasks of gather that the loop has not started yet, in their order
RECURSIVE NotStarted(_)
NotStarted(roles) ==
    IF roles = <<>> THEN <<>>
    ELSE (IF agent_state[Head(roles)] = "pending" THEN << Head(roles) >> ELSE <<>>)
           \o NotStarted(Tail(roles))

\* the loop runs one callback at a time: it is free when no process call is
\* inside llm.chat
LoopFree == \A r \in AgentRoles : agent_state[r] # "running"

\* "\n\n".join(f"=== {role.value} ===\n{content}" ...), as the list joined
RECURSIVE Combined(_)
Combined(roles) ==
    IF roles = <<>> THEN <<>>
    ELSE << << Head(roles), agent_output[Head(roles)] >> >> \o Combined(Tail(roles))

\* the prompt of process: the context part is there when context is truthy
ContextPart(context) == IF context = "" THEN <<>> ELSE << context >>

\* {**{r.value: c ...}, "summary": summary}
MemoWith(summary) ==
    [ key \in Specialists \union { "summary" } |->
        IF key = "summary" THEN summary ELSE agent_output[key] ]

besidesAgent ==
    << vars, runVars, retrieveVars, chunkerVars, splitVars, storeVars,
       indexVars, extractVars, chatVars, requestVars, passVars, hitlVars,
       reactVars, mcpVars >>

BesidesAgentIdle ==
    EngineInit /\ RunIdle /\ RetrieveIdle /\ ChunkerIdle /\ SplitIdle
    /\ StoreIdle
    /\ IndexIdle
    /\ ExtractIdle
    /\ ChatIdle
    /\ RequestIdle
    /\ PassIdle
    /\ HitlIdle
    /\ ReactIdle
    /\ McpIdle

\* generate_credit_memo(context) up to the await of gather: the three
\* process coroutines are created and scheduled, none has started
AgentInit ==
    /\ memo_pc = "phase1"
    /\ memo_context \in Contexts
    /\ agent_state = [ r \in AgentRoles |-> "pending" ]
    /\ agent_context = [ r \in AgentRoles |-> <<>> ]
    /\ agent_output = [ r \in AgentRoles |-> "" ]
    /\ agent_memo = <<>>
    /\ BesidesAgentIdle

\* the loop starts the next task of gather: process builds its prompt and
\* calls llm.chat
StartSpecialist(role) ==
    /\ memo_pc = "phase1"
    /\ LoopFree
    /\ NotStarted(SPECIALISTS) # <<>>
    /\ role = Head(NotStarted(SPECIALISTS))
    /\ agent_state' = [ agent_state EXCEPT ![role] = "running" ]
    /\ agent_context' = [ agent_context EXCEPT ![role] = ContextPart(memo_context) ]
    /\ UNCHANGED << memo_pc, memo_context, agent_output, agent_memo >>
    /\ UNCHANGED besidesAgent

\* llm.chat returns: process returns its text
ChatReturns(role, output) ==
    /\ agent_state[role] = "running"
    /\ agent_state' = [ agent_state EXCEPT ![role] = "returned" ]
    /\ agent_output' = [ agent_output EXCEPT ![role] = output ]
    /\ UNCHANGED << memo_pc, memo_context, agent_context, agent_memo >>
    /\ UNCHANGED besidesAgent

\* llm.chat raises: so does process
ChatRaises(role) ==
    /\ agent_state[role] = "running"
    /\ agent_state' = [ agent_state EXCEPT ![role] = "raised" ]
    /\ UNCHANGED << memo_pc, memo_context, agent_context, agent_output, agent_memo >>
    /\ UNCHANGED besidesAgent

\* the await of gather ends with the exception of a task; the tasks
\* scheduled with it have run before the awaiting coroutine resumes
GatherRaises ==
    /\ memo_pc = "phase1"
    /\ LoopFree
    /\ NotStarted(SPECIALISTS) = <<>>
    /\ \E r \in Specialists : agent_state[r] = "raised"
    /\ memo_pc' = "raised"
    /\ UNCHANGED << memo_context, agent_state, agent_context, agent_output, agent_memo >>
    /\ UNCHANGED besidesAgent

\* the await of gather ends with the three results: phase 2, the
\* orchestrator's process is awaited with the combined text
StartOrchestrator ==
    /\ memo_pc = "phase1"
    /\ \A r \in Specialists : agent_state[r] = "returned"
    /\ memo_pc' = "phase2"
    /\ agent_state' = [ agent_state EXCEPT !["orchestrator"] = "running" ]
    /\ agent_context' = [ agent_context EXCEPT
                             !["orchestrator"] = Combined(SPECIALISTS) ]
    /\ UNCHANGED << memo_context, agent_output, agent_memo >>
    /\ UNCHANGED besidesAgent

\* the summary is there: the dictionary is returned
ReturnMemo ==
    /\ memo_pc = "phase2"
    /\ agent_state["orchestrator"] = "returned"
    /\ agent_memo' = MemoWith(agent_output["orchestrator"])
    /\ memo_pc' = "returned"
    /\ UNCHANGED << memo_context, agent_state, agent_context, agent_output >>
    /\ UNCHANGED besidesAgent

\* the orchestrator's process raised
SummaryRaises ==
    /\ memo_pc = "phase2"
    /\ agent_state["orchestrator"] = "raised"
    /\ memo_pc' = "raised"
    /\ UNCHANGED << memo_context, agent_state, agent_context, agent_output, agent_memo >>
    /\ UNCHANGED besidesAgent

AgentNext ==
    \/ \E role \in Specialists : StartSpecialist(role)
    \/ \E role \in AgentRoles, output \in Outputs : ChatReturns(role, output)
    \/ \E role \in AgentRoles : ChatRaises(role)
    \/ GatherRaises
    \/ StartOrchestrator
    \/ ReturnMemo
    \/ SummaryRaises

AgentSpec == AgentInit /\ [][AgentNext]_<< agentVars, besidesAgent >>

\* C39: in phase 1 the three specialists run simultaneously (none waits
\* for another to finish before it starts); the orchestrator is invoked
\* only after all three have returned, with a context that holds the three
\* outputs; the result has one entry per specialist plus "summary".
C39_SpecialistsSimultaneous ==
    /\ \A a, b \in Specialists :
          agent_state[a] \in { "returned", "raised" } => agent_state[b] # "pending"
    /\ agent_state["orchestrator"] # "pending" =>
          /\ \A r \in Specialists : agent_state[r] = "returned"
          /\ \A r \in Specialists :
                \E k \in DOMAIN agent_context["orchestrator"] :
                   agent_context["orchestrator"][k] = << r, agent_output[r] >>
    /\ memo_pc = "returned" =>
          /\ DOMAIN agent_memo = Specialists \union { "summary" }
          /\ \A r \in Specialists : agent_memo[r] = agent_output[r]
          /\ agent_memo["summary"] = agent_output["orchestrator"]

=============================================================================
